---- MODULE Spec2Model ----
(***************************************************************************)
(* Model of the view-state layer of the Upstream client: the remote-data   *)
(* store (ui/src/remote.ts), the project source screen                     *)
(* (ui/src/screen/project/source.ts), the store-backed fetch operations,   *)
(* the funding pool and the org creation and polling code.                 *)
(*                                                                         *)
(* The event loop is single threaded: an action is the synchronous run of  *)
(* a handler between two awaits (or the continuation run when a promise    *)
(* settles).                                                               *)
(***************************************************************************)
EXTENDS Integers, Sequences, FiniteSets, TLC

(***************************************************************************)
(* Bounds of the model.                                                    *)
(***************************************************************************)
MaxPayload == 2
MaxSubscribers == 2
MaxPoolCalls == 2
MaxAmount == 2
MaxOrgCalls == 1
MaxErrorsShown == 2
MaxInFlight == 1
MaxPeers == 1
MaxCalls == 3
MaxPatches == 1
MaxListed == 2
MaxHistory == 5
MaxSessionRequests == 2
MaxAnchors == 3
MaxListRequests == 3
MaxRefreshes == 2
MaxUsers == 2

VARIABLES
  \* ---- remote store under test (ui/src/remote.ts)
  store,          \* value held by internalStore
  subscribers,    \* number of subscribers of internalStore
  lastSuccess,    \* history: payload of the latest success() call
  lastOp,         \* history: the latest operation and its argument
  result,         \* history: value returned by the latest unwrap()
  \* ---- funding pool (ui/src/funding/pool.ts)
  poolData,       \* value of the pool's `data` remote store
  chainBalance,   \* the pool contract's withdrawable balance
  poolCalls,      \* the topUp / withdraw calls: kind, amount, position
  poolTx,         \* state of the transaction each call submitted
  poolLoads,      \* the loadPoolData runs: position and balance read
  \* ---- wallet (ui/src/wallet.ts)
  wallet,         \* value of the wallet's stateStore
  wcConnected,    \* walletConnect.connected
  walletPc,       \* position of a connect() / disconnect() call
  balanceReqs,    \* origins ("user", "timer") of the balanceOf requests in flight
  \* ---- org polling loop and org creation (ui/src/org.ts)
  pollPc,         \* position of updateOrgsForever
  showError,      \* its local variable showError
  errorsShown,    \* number of error.show calls it made
  lastPollFailed, \* history: its latest fetchOrgs call failed
  graphOrgs,      \* orgs of the account known to the org index
  orgSidebar,     \* value of orgSidebarStore
  pendingOrgs,    \* value of the pendingOrgs store
  orgCalls,       \* the createOrg calls
  \* ---- store-backed fetch operations (project, session, project screen,
  \*      user profile)
  fetchOp,        \* the operation under test
  fetchStore,     \* value of the operation's remote store
  fetchPending,   \* number of its requests in flight, per request of the chain
  lastFetch,      \* history: the latest step of the operation
  \* ---- project source screen (ui/src/screen/project/source.ts)
  screen,         \* value of screenStore
  pathStore,      \* value of pathStore
  aborted,        \* the AbortControllers whose abort() was called
  codeStore,      \* values of the `code` writables
  treeStore,      \* values of the `tree` writables
  counters,       \* Patches counter of the menuItems arrays
  sourceCalls,    \* calls of fetch, selectPath, selectRevision, refreshPatches
  lastRun,        \* history: the latest handler run and the calls it made
  \* ---- history of the remote calls
  failed,         \* calls that have failed
  autoReissued,   \* calls issued again, after failing, with no new user trigger
  \* ---- feature flags (native/preload.js, ui/src/ipc.ts) and the revision
  \*      list of the source screen
  processEnv,     \* process.env of the Electron process
  electron,       \* window.electron, as set by the preload script
  revisionsResponse, \* the latest response of fetchRevisions
  revisionList,   \* `revisions` of the source screen: mapRevisions of it
  \* ---- global hotkeys (initializeHotkeys) and the router
  routerHistory,  \* the entries of the navigation history, the last is shown
  \* ---- session (ui/src/session.ts)
  sessionStore,   \* value of sessionStore: the settings of the session data
  sessionSubscribed, \* the app is mounted and subscribed to the session
  proxySettings,  \* the settings of the session held by the proxy
  settingsUpdates, \* bodies of the `session/settings` updates in flight
  sessionGets,    \* number of `session` requests in flight
  lastSession,    \* history: the latest step of the session module
  \* ---- main window (native/main.ts)
  windowUrl,      \* the URL the main window shows
  childWindows,   \* number of windows the main window has opened
  externalOpened, \* the URLs handed to shell.openExternal
  lastNav,        \* history: the latest event and its URL
  \* ---- resolveProjectAnchors (ui/src/org.ts)
  anchorPc,       \* position of the call
  anchors,        \* `anchors`: the pending, then the confirmed anchors
  anchorGets,     \* anchors whose proxy.client.project.get is in flight
  anchoredProjects, \* the array anchoredProjects
  unresolvedAnchors, \* the array unresolvedAnchors
  pushed,         \* history: anchoredProjects as it was before the sort
  \* ---- the projects store (ui/src/project.ts)
  projectsStore,  \* value of projectsStore
  projectsSubscribers, \* subscribers of projectsStore
  listRequests,   \* `projects` requests in flight
  listIssued,     \* number of `projects` requests sent so far
  everSubscribed, \* history: the store has had a subscriber
  listResponse,   \* history: the latest response to a `projects` request
  \* ---- the project screen (ui/src/screen/project.ts)
  peerScreen,     \* value of the screenStore of the project screen
  peerCalls,      \* the refreshPeers calls: position and the data read
  peerFetch,      \* position of the fetch call that opens the screen
  peerAborted,    \* refreshPeers calls whose AbortController was aborted
  selectedDuring, \* history: refreshPeers calls in flight at a selectPeer
  tracked,        \* the peers the proxy tracks for the project
  replicated,     \* the peers the proxy has reported as replicated
  tracking        \* per peer, the peerTrack / peerUntrack request in flight

storeVars == <<store, subscribers, lastSuccess, lastOp, result>>
poolVars == <<poolData, chainBalance, poolCalls, poolTx, poolLoads>>

walletVars == <<wallet, wcConnected, walletPc, balanceReqs>>
pollVars ==
  <<pollPc, showError, errorsShown, lastPollFailed, graphOrgs, orgSidebar>>
orgVars == <<pendingOrgs, orgCalls>>
fetchVars == <<fetchOp, fetchStore, fetchPending, lastFetch>>
sourceVars ==
  <<screen, pathStore, aborted, codeStore, treeStore, counters, sourceCalls,
    lastRun>>
callVars == <<failed, autoReissued>>
flagVars == <<processEnv, electron, revisionsResponse, revisionList>>

\* The state of the view-state layer proper, and the state of the rest.
coreVars ==
  <<storeVars, poolVars, walletVars, pollVars, orgVars, fetchVars, sourceVars,
    callVars>>
hotkeyVars == <<routerHistory>>
sessionVars ==
  <<sessionStore, sessionSubscribed, proxySettings, settingsUpdates,
    sessionGets, lastSession>>
windowVars == <<windowUrl, childWindows, externalOpened, lastNav>>
anchorVars ==
  <<anchorPc, anchors, anchorGets, anchoredProjects, unresolvedAnchors, pushed>>
projectsVars ==
  <<projectsStore, projectsSubscribers, listRequests, listIssued,
    everSubscribed, listResponse>>
peerVars ==
  <<peerScreen, peerCalls, peerFetch, peerAborted, selectedDuring, tracked,
    replicated, tracking>>
extVars ==
  <<flagVars, hotkeyVars, sessionVars, windowVars, anchorVars, projectsVars,
    peerVars>>

vars == <<coreVars, extVars>>

FlagFrame ==
  UNCHANGED <<coreVars, hotkeyVars, sessionVars, windowVars, anchorVars,
              projectsVars, peerVars>>
HotkeyFrame ==
  UNCHANGED <<coreVars, flagVars, sessionVars, windowVars, anchorVars,
              projectsVars, peerVars>>
SessionFrame ==
  UNCHANGED <<coreVars, flagVars, hotkeyVars, windowVars, anchorVars,
              projectsVars, peerVars>>
WindowFrame ==
  UNCHANGED <<coreVars, flagVars, hotkeyVars, sessionVars, anchorVars,
              projectsVars, peerVars>>
AnchorFrame ==
  UNCHANGED <<coreVars, flagVars, hotkeyVars, sessionVars, windowVars,
              projectsVars, peerVars>>
ProjectsFrame ==
  UNCHANGED <<coreVars, flagVars, hotkeyVars, sessionVars, windowVars,
              anchorVars, peerVars>>
PeerFrame ==
  UNCHANGED <<coreVars, flagVars, hotkeyVars, sessionVars, windowVars,
              anchorVars, projectsVars>>

(***************************************************************************)
(* remote.ts: Status, Data<T>                                              *)
(***************************************************************************)
NotAsked == "NOT_ASKED"
Loading == "LOADING"
Error == "ERROR"
Success == "SUCCESS"
Status == {NotAsked, Loading, Error, Success}

\* `undefined`, the value of a field an object does not have
Undefined == 0
Payloads == 1..MaxPayload

\* error.Code values used by this layer
RequestAbortError == "RequestAbortError"
ErrorCodes == {RequestAbortError, "CommitFetchFailure", "OrgFetchFailed"}
NoError == [code |-> "none"]
Errors == [code : ErrorCodes]

\* The four variants of Data<T>; a variant's missing field reads as undefined.
DataNotAsked == [status |-> NotAsked, data |-> Undefined, error |-> NoError]
DataLoading == [status |-> Loading, data |-> Undefined, error |-> NoError]
DataSuccess(d) == [status |-> Success, data |-> d, error |-> NoError]
DataError(e) == [status |-> Error, data |-> Undefined, error |-> e]

(***************************************************************************)
(* svelte `get(store)` on the writable of createStore: it subscribes, reads *)
(* the value and unsubscribes.  When it was the only subscriber the stop    *)
(* notifier of createStore runs, and that one sets NotAsked.                *)
(***************************************************************************)
StopNotifier(s) == DataNotAsked

GetAfter(s, n) == IF n = 0 THEN StopNotifier(s) ELSE s

\* createStore.is
Is(s, status) == s.status = status

\* createStore.error, as a function of the held value
StoreErrorAlways(s, err) == DataError(err)

StoreError(s, err) ==
  IF err.code # RequestAbortError THEN DataError(err) ELSE s

\* createStore.unwrap: is(Success) reads the store once, the cast reads it again
Unwrap(s, n) ==
  LET first == Is(s, Success)
      s1 == GetAfter(s, n)
  IN IF first
       THEN [value |-> s1.data, after |-> GetAfter(s1, n)]
       ELSE [value |-> Undefined, after |-> s1]

(***************************************************************************)
(* Operations of one store.                                                *)
(***************************************************************************)
StoreFrame ==
  UNCHANGED <<poolVars, walletVars, pollVars, orgVars, fetchVars, sourceVars,
              callVars, extVars>>

loading ==
  /\ store' = DataLoading
  /\ lastOp' = [op |-> "loading", arg |-> Undefined, before |-> store]
  /\ UNCHANGED <<subscribers, lastSuccess, result>>
  /\ StoreFrame

success ==
  \E d \in Payloads :
    /\ store' = DataSuccess(d)
    /\ lastSuccess' = d
    /\ lastOp' = [op |-> "success", arg |-> d, before |-> store]
    /\ UNCHANGED <<subscribers, result>>
    /\ StoreFrame

error ==
  \E e \in Errors :
    /\ store' = StoreError(store, e)
    /\ lastOp' = [op |-> "error", arg |-> e, before |-> store]
    /\ UNCHANGED <<subscribers, lastSuccess, result>>
    /\ StoreFrame

reset ==
  /\ store' = DataNotAsked
  /\ lastOp' = [op |-> "reset", arg |-> Undefined, before |-> store]
  /\ UNCHANGED <<subscribers, lastSuccess, result>>
  /\ StoreFrame

subscribe ==
  /\ subscribers < MaxSubscribers
  /\ subscribers' = subscribers + 1
  /\ lastOp' = [op |-> "subscribe", arg |-> Undefined, before |-> store]
  /\ UNCHANGED <<store, lastSuccess, result>>
  /\ StoreFrame

unsubscribe ==
  /\ subscribers > 0
  /\ subscribers' = subscribers - 1
  /\ store' = IF subscribers = 1 THEN StopNotifier(store) ELSE store
  /\ lastOp' = [op |-> "unsubscribe", arg |-> Undefined, before |-> store]
  /\ UNCHANGED <<lastSuccess, result>>
  /\ StoreFrame

unwrap ==
  LET u == Unwrap(store, subscribers)
  IN /\ result' = u.value
     /\ store' = u.after
     /\ lastOp' = [op |-> "unwrap", arg |-> Undefined, before |-> store]
     /\ UNCHANGED <<subscribers, lastSuccess>>
     /\ StoreFrame

StoreInit ==
  /\ store = DataNotAsked
  /\ subscribers = 0
  /\ lastSuccess = Undefined
  /\ lastOp = [op |-> "create", arg |-> Undefined, before |-> DataNotAsked]
  /\ result = Undefined

StoreNext ==
  \/ loading
  \/ success
  \/ error
  \/ reset
  \/ subscribe
  \/ unsubscribe
  \/ unwrap

(***************************************************************************)
(* Funding pool (ui/src/funding/pool.ts): make, loadPoolData, topUp and    *)
(* withdraw.  Call 0 of poolLoads is the loadPoolData run started by make. *)
(***************************************************************************)
PoolFrame ==
  UNCHANGED <<storeVars, walletVars, pollVars, orgVars, fetchVars, sourceVars,
              callVars, extVars>>

PoolCallIds == 1..MaxPoolCalls
PoolLoadIds == 0..MaxPoolCalls
Amounts == 1..MaxAmount

\* The awaited reads of loadPoolData, in order.
LoadSteps ==
  <<"withdrawable", "collectable", "getAmountPerBlock", "getAllReceivers",
    "getErc20Allowance">>

NextLoadStep(step) ==
  IF step = "withdrawable" THEN "collectable"
  ELSE IF step = "collectable" THEN "getAmountPerBlock"
  ELSE IF step = "getAmountPerBlock" THEN "getAllReceivers"
  ELSE IF step = "getAllReceivers" THEN "getErc20Allowance"
  ELSE "done"

IdlePoolCall == [kind |-> "none", amount |-> 0, pc |-> "idle", submitted |-> FALSE]

\* loadPoolData up to its first await.
StartLoad == [pc |-> "withdrawable", balance |-> 0]

\* The promise chain `.then(tx => {...; tx.wait();}).finally(loadPoolData)`
\* settles when loadPoolData has ended: resolved with undefined when the
\* submission resolved, rejected when it was rejected.
Settled(call, tx) == IF call.submitted THEN "resolved" ELSE "rejected"

\* The user calls topUp(value) or withdraw(amount): the contract call is
\* sent to the wallet for confirmation.
PoolCall(c, kind, v) ==
  /\ poolCalls[c].pc = "idle"
  /\ \A d \in PoolCallIds : d < c => poolCalls[d].pc # "idle"
  /\ poolCalls' = [poolCalls EXCEPT ![c] =
       [kind |-> kind, amount |-> v, pc |-> "submitting", submitted |-> FALSE]]
  /\ UNCHANGED <<poolData, chainBalance, poolTx, poolLoads>>
  /\ PoolFrame

topUp == \E c \in PoolCallIds, v \in Amounts : PoolCall(c, "topUp", v)

withdraw == \E c \in PoolCallIds, v \in Amounts : PoolCall(c, "withdraw", v)

\* poolContract.topUp / withdraw resolves with the submitted transaction:
\* the then-callback records it and calls tx.wait() without awaiting or
\* returning it, and finally() starts loadPoolData.
SubmitResolved ==
  \E c \in PoolCallIds :
    /\ poolCalls[c].pc = "submitting"
    /\ poolTx' = [poolTx EXCEPT ![c] = "pending"]
    /\ poolCalls' = [poolCalls EXCEPT ![c].pc = "loading", ![c].submitted = TRUE]
    /\ poolLoads' = [poolLoads EXCEPT ![c] = StartLoad]
    /\ UNCHANGED <<poolData, chainBalance>>
    /\ PoolFrame

\* The contract call is rejected (the user declines it in the wallet):
\* the then-callback is skipped and finally() starts loadPoolData.
SubmitRejected ==
  \E c \in PoolCallIds :
    /\ poolCalls[c].pc = "submitting"
    /\ poolCalls' = [poolCalls EXCEPT ![c].pc = "loading"]
    /\ poolLoads' = [poolLoads EXCEPT ![c] = StartLoad]
    /\ UNCHANGED <<poolData, chainBalance, poolTx>>
    /\ PoolFrame

\* The pending transaction is included in the chain.
MineTx ==
  \E c \in PoolCallIds :
    /\ poolTx[c] = "pending"
    /\ poolCalls[c].kind = "withdraw" => poolCalls[c].amount <= chainBalance
    /\ poolTx' = [poolTx EXCEPT ![c] = "mined"]
    /\ chainBalance' = IF poolCalls[c].kind = "topUp"
                         THEN chainBalance + poolCalls[c].amount
                         ELSE chainBalance - poolCalls[c].amount
    /\ UNCHANGED <<poolData, poolCalls, poolLoads>>
    /\ PoolFrame

\* The pending transaction fails on chain.
RevertTx ==
  \E c \in PoolCallIds :
    /\ poolTx[c] = "pending"
    /\ poolTx' = [poolTx EXCEPT ![c] = "reverted"]
    /\ UNCHANGED <<poolData, chainBalance, poolCalls, poolLoads>>
    /\ PoolFrame

\* When the loadPoolData run of call l ends, the promise of the call settles.
EndOfLoad(l) ==
  IF l \in PoolCallIds
    THEN [poolCalls EXCEPT ![l].pc = Settled(poolCalls[l], poolTx[l])]
    ELSE poolCalls

\* One awaited read of loadPoolData resolves; after the last one the pool
\* data is stored with data.success.
LoadStepResolved ==
  \E l \in PoolLoadIds :
    LET ld == poolLoads[l]
        bal == IF ld.pc = "withdrawable" THEN chainBalance ELSE ld.balance
        nxt == NextLoadStep(ld.pc)
    IN /\ ld.pc \notin {"idle", "done"}
       /\ poolLoads' = [poolLoads EXCEPT ![l] = [pc |-> nxt, balance |-> bal]]
       /\ poolData' = IF nxt = "done" THEN DataSuccess([balance |-> bal]) ELSE poolData
       /\ poolCalls' = IF nxt = "done" THEN EndOfLoad(l) ELSE poolCalls
       /\ UNCHANGED <<chainBalance, poolTx>>
       /\ PoolFrame

\* One awaited read of loadPoolData is rejected: the catch block hands the
\* error to data.error and loadPoolData ends.
LoadStepRejected ==
  \E l \in PoolLoadIds, e \in Errors :
    LET ld == poolLoads[l]
    IN /\ ld.pc \notin {"idle", "done"}
       /\ poolLoads' = [poolLoads EXCEPT ![l].pc = "done"]
       /\ poolData' = StoreError(poolData, e)
       /\ poolCalls' = EndOfLoad(l)
       /\ UNCHANGED <<chainBalance, poolTx>>
       /\ PoolFrame

\* make(wallet): the data store is created and loadPoolData is started.
PoolInit ==
  /\ poolData = DataNotAsked
  /\ chainBalance = 0
  /\ poolCalls = [c \in PoolCallIds |-> IdlePoolCall]
  /\ poolTx = [c \in PoolCallIds |-> "none"]
  /\ poolLoads = [l \in PoolLoadIds |->
       IF l = 0 THEN StartLoad ELSE [pc |-> "idle", balance |-> 0]]

PoolNext ==
  \/ topUp
  \/ withdraw
  \/ SubmitResolved
  \/ SubmitRejected
  \/ MineTx
  \/ RevertTx
  \/ LoadStepResolved
  \/ LoadStepRejected

(***************************************************************************)
(* History of the remote calls.  A call is issued either by an operation   *)
(* the user triggered ("user") or by a background task ("timer": the       *)
(* wallet's setInterval and updateOrgsForever).  `failed` holds the calls  *)
(* that have failed; a call is re-issued on its own when a background task *)
(* issues it after it failed, or when the operation in which it failed     *)
(* issues it again.                                                        *)
(***************************************************************************)
Reissued(calls, origin) ==
  IF origin = "timer" THEN {k \in calls : k \in failed} ELSE {}

(***************************************************************************)
(* Wallet (build() of the wallet module).                                  *)
(***************************************************************************)
NotConnected == "NOT_CONNECTED"
Connecting == "CONNECTING"
Connected == "CONNECTED"

WalletFrame ==
  UNCHANGED <<storeVars, poolVars, orgVars, fetchVars, sourceVars, extVars>>

\* fetchOrgs up to its await: it throws unless the wallet is connected.
FetchOrgsAllowed(w) == w.status = Connected

\* updateOrgsForever leaves waitUntil(wallet connected) and calls fetchOrgs.
PollWakes(w) == pollPc = "waitWallet" /\ FetchOrgsAllowed(w)

PollAfterWallet(w, fl, re) ==
  IF PollWakes(w)
    THEN /\ pollPc' = "fetching"
         /\ autoReissued' = re \cup Reissued({"getOrgs"}, "timer")
         /\ failed' = fl
         /\ UNCHANGED <<showError, errorsShown, lastPollFailed, graphOrgs,
                        orgSidebar>>
    ELSE /\ autoReissued' = re
         /\ failed' = fl
         /\ UNCHANGED pollVars

\* loadAccountData up to its await on balanceOf.
LoadAccountDataIssues == wcConnected

\* connect(): throws when a wallet is connected, else awaits
\* walletConnect.connect().
connect ==
  /\ wallet.status = NotConnected
  /\ walletPc = "idle"
  /\ walletPc' = "connecting"
  /\ UNCHANGED <<wallet, wcConnected, balanceReqs, failed, autoReissued>>
  /\ UNCHANGED pollVars
  /\ WalletFrame

\* walletConnect.connect() resolved: initialize() sets Connecting and
\* loadAccountData requests the balance.
ConnectResolved ==
  /\ walletPc = "connecting"
  /\ wcConnected' = TRUE
  /\ wallet' = [status |-> Connecting, error |-> FALSE]
  /\ balanceReqs' = balanceReqs \cup {"user"}
  /\ autoReissued' = autoReissued \cup Reissued({"balanceOf"}, "user")
  /\ walletPc' = "idle"
  /\ UNCHANGED <<failed>>
  /\ UNCHANGED pollVars
  /\ WalletFrame

\* walletConnect.connect() rejected: the catch block stores the error, then
\* initialize() runs all the same.
ConnectRejected ==
  /\ walletPc = "connecting"
  /\ wallet' = [status |-> Connecting, error |-> FALSE]
  /\ balanceReqs' = IF LoadAccountDataIssues
                      THEN balanceReqs \cup {"user"} ELSE balanceReqs
  /\ autoReissued' = IF LoadAccountDataIssues
       THEN autoReissued \cup Reissued({"balanceOf"}, "user")
       ELSE autoReissued
  /\ walletPc' = "idle"
  /\ UNCHANGED <<wcConnected, failed>>
  /\ UNCHANGED pollVars
  /\ WalletFrame

\* disconnect() up to its await on killSession.
disconnect ==
  /\ walletPc = "idle"
  /\ walletPc' = "killing"
  /\ UNCHANGED <<wallet, wcConnected, balanceReqs, failed, autoReissued>>
  /\ UNCHANGED pollVars
  /\ WalletFrame

\* killSession resolved: a new WalletConnect is made and the state is set
\* to NotConnected.
KillSessionResolved ==
  /\ walletPc = "killing"
  /\ wcConnected' = FALSE
  /\ wallet' = [status |-> NotConnected, error |-> FALSE]
  /\ walletPc' = "idle"
  /\ UNCHANGED <<balanceReqs, failed, autoReissued>>
  /\ UNCHANGED pollVars
  /\ WalletFrame

\* setInterval(loadAccountData, REFRESH_INTERVAL_MILLIS) fires; the model
\* lets it fire once the request of the previous tick has settled.
RefreshTick ==
  /\ LoadAccountDataIssues
  /\ "timer" \notin balanceReqs
  /\ balanceReqs' = balanceReqs \cup {"timer"}
  /\ autoReissued' = autoReissued \cup Reissued({"balanceOf"}, "timer")
  /\ UNCHANGED <<wallet, wcConnected, walletPc, failed>>
  /\ UNCHANGED pollVars
  /\ WalletFrame

\* balanceOf resolved: the wallet is Connected.
BalanceResolved ==
  \E t \in balanceReqs :
    LET w == [status |-> Connected, error |-> FALSE]
    IN /\ wallet' = w
       /\ balanceReqs' = balanceReqs \ {t}
       /\ PollAfterWallet(w, failed, autoReissued)
       /\ UNCHANGED <<wcConnected, walletPc>>
       /\ WalletFrame

\* balanceOf rejected: the wallet is NotConnected with the error.
BalanceRejected ==
  \E t \in balanceReqs :
    /\ wallet' = [status |-> NotConnected, error |-> TRUE]
    /\ balanceReqs' = balanceReqs \ {t}
    /\ failed' = failed \cup {"balanceOf"}
    /\ UNCHANGED <<wcConnected, walletPc, autoReissued>>
    /\ UNCHANGED pollVars
    /\ WalletFrame

WalletInit ==
  /\ wallet = [status |-> NotConnected, error |-> FALSE]
  /\ wcConnected = FALSE
  /\ walletPc = "idle"
  /\ balanceReqs = {}
  /\ failed = {}
  /\ autoReissued = {}

(***************************************************************************)
(* Orgs (ui/src/org.ts): fetchOrgs, updateOrgsForever, createOrg.          *)
(***************************************************************************)
OrgCallIds == 1..MaxOrgCalls

NoOrg == [id |-> 0, checksum |-> FALSE]
\* The address of the org made by the transaction of call c, as logged.
OrgAddress(c) == [id |-> c, checksum |-> TRUE]
ToLowerCase(a) == [a EXCEPT !.checksum = FALSE]

\* `receipt` is the receipt of the call's transaction once it is mined.
NotMined == <<[name |-> "not mined", arg |-> NoOrg]>>
IdleOrgCall == [pc |-> "idle", org |-> NoOrg, receipt |-> NotMined]

\* lodash.sortBy(orgs, org => org.timestamp)
RECURSIVE SortByTimestamp(_)
SortByTimestamp(orgs) ==
  IF orgs = {} THEN <<>>
  ELSE LET first == CHOOSE o \in orgs : \A q \in orgs : o.timestamp <= q.timestamp
       IN <<first>> \o SortByTimestamp(orgs \ {first})

SidebarIds(sidebar) == {sidebar[i].id : i \in 1..Len(sidebar)}

\* Logs of a transaction receipt.
OrgCreatedLog(c) == [name |-> "OrgCreated", arg |-> OrgAddress(c)]
OtherLog == [name |-> "Other", arg |-> NoOrg]
UnparseableLog == [name |-> "unparseable", arg |-> NoOrg]
Receipts(c) ==
  {<<>>, <<UnparseableLog>>, <<OrgCreatedLog(c)>>, <<OtherLog, OrgCreatedLog(c)>>}

\* parseOrgCreatedReceipt: the address of the last OrgCreated log, lower
\* cased; NoOrg stands for the thrown OrgCreateNotFoundInInterfaceLogs.
RECURSIVE ParseLogs(_, _)
ParseLogs(logs, orgAddress) ==
  IF logs = <<>> THEN orgAddress
  ELSE ParseLogs(Tail(logs),
         IF Head(logs).name = "OrgCreated"
           THEN ToLowerCase(Head(logs).arg) ELSE orgAddress)

parseOrgCreatedReceipt(logs) == ParseLogs(logs, NoOrg)

\* createOrg after waitUntil(orgSidebarStore has the org): the counter is
\* decremented and fetchOrgs is called.
AfterSidebar(call, w) ==
  [call EXCEPT !.pc = IF FetchOrgsAllowed(w) THEN "fetchingOrgs" ELSE "failed"]

Waiting(calls, sidebar) ==
  {c \in OrgCallIds :
     calls[c].pc = "waitingSidebar" /\ calls[c].org \in SidebarIds(sidebar)}

\* orgSidebarStore.set(sidebar): the createOrg calls waiting for one of its
\* orgs go on.
WakeOrgCalls(calls, sidebar, w) ==
  [c \in OrgCallIds |->
     IF c \in Waiting(calls, sidebar) THEN AfterSidebar(calls[c], w) ELSE calls[c]]

WokenIssue(calls, sidebar, w) ==
  UNION {Reissued({"getOrgs"}, "user") :
           c \in {d \in Waiting(calls, sidebar) : FetchOrgsAllowed(w)}}

OrgFrame == UNCHANGED <<storeVars, poolVars, fetchVars, sourceVars, extVars>>

\* updateOrgsForever: the handlers of `fetchOrgs().then(...)`, as the values
\* they leave in showError and in the number of errors shown.
PollOnResolved(show, shown) == [showError |-> TRUE, errorsShown |-> shown]

PollOnRejectedAlwaysShows(show, shown) ==
  [showError |-> FALSE, errorsShown |-> shown + 1]

PollOnRejected(show, shown) ==
  IF show THEN [showError |-> FALSE, errorsShown |-> shown + 1]
  ELSE [showError |-> show, errorsShown |-> shown]

\* A poll round's getOrgs resolved within fetchOrgs: the sorted orgs are
\* stored and showError is re-armed.
PollFetchResolved ==
  /\ pollPc = "fetching"
  /\ orgSidebar' = SortByTimestamp(graphOrgs)
  /\ showError' = PollOnResolved(showError, errorsShown).showError
  /\ errorsShown' = PollOnResolved(showError, errorsShown).errorsShown
  /\ lastPollFailed' = FALSE
  /\ pollPc' = "sleeping"
  /\ orgCalls' = WakeOrgCalls(orgCalls, orgSidebar', wallet)
  /\ pendingOrgs' = pendingOrgs - Cardinality(Waiting(orgCalls, orgSidebar'))
  /\ autoReissued' = autoReissued \cup WokenIssue(orgCalls, orgSidebar', wallet)
  /\ UNCHANGED <<graphOrgs, failed>>
  /\ UNCHANGED walletVars
  /\ OrgFrame

\* A poll round's getOrgs was rejected: the error is shown if showError.
\* The model follows the loop until MaxErrorsShown errors have been shown.
PollFetchRejected ==
  /\ pollPc = "fetching"
  /\ PollOnRejected(showError, errorsShown).errorsShown <= MaxErrorsShown
  /\ errorsShown' = PollOnRejected(showError, errorsShown).errorsShown
  /\ showError' = PollOnRejected(showError, errorsShown).showError
  /\ lastPollFailed' = TRUE
  /\ pollPc' = "sleeping"
  /\ failed' = failed \cup {"getOrgs"}
  /\ UNCHANGED <<graphOrgs, orgSidebar, autoReissued>>
  /\ UNCHANGED <<walletVars, orgVars>>
  /\ OrgFrame

\* sleep(ORG_POLL_INTERVAL_MS) is over: the loop waits for a connected
\* wallet and calls fetchOrgs again.
PollSleepElapsed ==
  /\ pollPc = "sleeping"
  /\ IF FetchOrgsAllowed(wallet)
       THEN /\ pollPc' = "fetching"
            /\ autoReissued' =
                 autoReissued \cup Reissued({"getOrgs"}, "timer")
       ELSE /\ pollPc' = "waitWallet"
            /\ UNCHANGED <<autoReissued>>
  /\ UNCHANGED <<showError, errorsShown, lastPollFailed, graphOrgs, orgSidebar,
                 failed>>
  /\ UNCHANGED <<walletVars, orgVars>>
  /\ OrgFrame

\* The org index learns of an org created on chain.
GraphIndexes ==
  \E c \in OrgCallIds :
    /\ orgCalls[c].receipt # NotMined
    /\ parseOrgCreatedReceipt(orgCalls[c].receipt) # NoOrg
    /\ ToLowerCase(OrgAddress(c)) \notin {o.id : o \in graphOrgs}
    /\ graphOrgs' = graphOrgs \cup
         {[id |-> ToLowerCase(OrgAddress(c)),
           timestamp |-> Cardinality(graphOrgs) + 1]}
    /\ UNCHANGED <<pollPc, showError, errorsShown, lastPollFailed, orgSidebar>>
    /\ UNCHANGED <<walletVars, orgVars, callVars>>
    /\ OrgFrame

PollInit ==
  /\ pollPc = "waitWallet"
  /\ showError = TRUE
  /\ errorsShown = 0
  /\ lastPollFailed = FALSE
  /\ graphOrgs = {}
  /\ orgSidebar = <<>>

\* createOrg(owner) up to its await on submitCreateOrgTx.
createOrg ==
  \E c \in OrgCallIds :
    /\ orgCalls[c].pc = "idle"
    /\ \A d \in OrgCallIds : d < c => orgCalls[d].pc # "idle"
    /\ orgCalls' = [orgCalls EXCEPT ![c] =
         [IdleOrgCall EXCEPT !.pc = "submitting"]]
    /\ UNCHANGED <<pendingOrgs, failed, autoReissued>>
    /\ UNCHANGED <<walletVars, pollVars>>
    /\ OrgFrame

\* The org creation transaction was submitted: the counter is incremented
\* and the call awaits waitForTransaction.
SubmitTxResolved ==
  \E c \in OrgCallIds :
    /\ orgCalls[c].pc = "submitting"
    /\ pendingOrgs' = pendingOrgs + 1
    /\ orgCalls' = [orgCalls EXCEPT ![c].pc = "waitingTx"]
    /\ UNCHANGED <<walletVars, pollVars, callVars>>
    /\ OrgFrame

\* submitCreateOrgTx was rejected: createOrg throws.
SubmitTxRejected ==
  \E c \in OrgCallIds :
    /\ orgCalls[c].pc = "submitting"
    /\ orgCalls' = [orgCalls EXCEPT ![c].pc = "failed"]
    /\ UNCHANGED <<pendingOrgs, failed, autoReissued>>
    /\ UNCHANGED <<walletVars, pollVars>>
    /\ OrgFrame

\* createOrg from the receipt on: parse it, wait for the org in the
\* sidebar, decrement the counter and call fetchOrgs.
AfterReceipt(call, logs, sidebar, w) ==
  LET orgAddress == parseOrgCreatedReceipt(logs)
  IN IF orgAddress = NoOrg THEN [call EXCEPT !.pc = "failed"]
     ELSE IF orgAddress \in SidebarIds(sidebar)
       THEN AfterSidebar([call EXCEPT !.org = orgAddress], w)
       ELSE [call EXCEPT !.pc = "waitingSidebar", !.org = orgAddress]

\* The submitted transaction is mined, with some receipt.
TxMined ==
  \E c \in OrgCallIds :
    \E logs \in Receipts(c) :
      /\ orgCalls[c].pc = "waitingTx"
      /\ orgCalls[c].receipt = NotMined
      /\ orgCalls' = [orgCalls EXCEPT ![c].receipt = logs]
      /\ UNCHANGED <<pendingOrgs>>
      /\ UNCHANGED <<walletVars, pollVars, callVars>>
      /\ OrgFrame

\* waitForTransaction resolved with the receipt.
WaitTxResolved ==
  \E c \in OrgCallIds :
    LET after == AfterReceipt(orgCalls[c], orgCalls[c].receipt, orgSidebar, wallet)
    IN /\ orgCalls[c].pc = "waitingTx"
       /\ orgCalls[c].receipt # NotMined
       /\ orgCalls' = [orgCalls EXCEPT ![c] = after]
       /\ pendingOrgs' = IF after.org # NoOrg /\ after.pc # "waitingSidebar"
                           THEN pendingOrgs - 1 ELSE pendingOrgs
       /\ autoReissued' = IF after.pc = "fetchingOrgs"
            THEN autoReissued \cup Reissued({"getOrgs"}, "user")
            ELSE autoReissued
       /\ UNCHANGED <<failed>>
       /\ UNCHANGED <<walletVars, pollVars>>
       /\ OrgFrame

\* waitForTransaction was rejected: createOrg throws.
WaitTxRejected ==
  \E c \in OrgCallIds :
    /\ orgCalls[c].pc = "waitingTx"
    /\ orgCalls' = [orgCalls EXCEPT ![c].pc = "failed"]
    /\ UNCHANGED <<pendingOrgs, failed, autoReissued>>
    /\ UNCHANGED <<walletVars, pollVars>>
    /\ OrgFrame

\* The getOrgs of the fetchOrgs that ends createOrg resolved.
FinalFetchResolved ==
  \E c \in OrgCallIds :
    LET done == [orgCalls EXCEPT ![c].pc = "done"]
    IN /\ orgCalls[c].pc = "fetchingOrgs"
       /\ orgSidebar' = SortByTimestamp(graphOrgs)
       /\ orgCalls' = WakeOrgCalls(done, orgSidebar', wallet)
       /\ pendingOrgs' = pendingOrgs - Cardinality(Waiting(done, orgSidebar'))
       /\ autoReissued' = autoReissued \cup WokenIssue(done, orgSidebar', wallet)
       /\ UNCHANGED <<pollPc, showError, errorsShown, lastPollFailed, graphOrgs>>
       /\ UNCHANGED <<failed>>
       /\ UNCHANGED walletVars
       /\ OrgFrame

\* The getOrgs of the fetchOrgs that ends createOrg was rejected.
FinalFetchRejected ==
  \E c \in OrgCallIds :
    /\ orgCalls[c].pc = "fetchingOrgs"
    /\ orgCalls' = [orgCalls EXCEPT ![c].pc = "failed"]
    /\ failed' = failed \cup {"getOrgs"}
    /\ UNCHANGED <<pendingOrgs, autoReissued>>
    /\ UNCHANGED <<walletVars, pollVars>>
    /\ OrgFrame

OrgInit ==
  /\ pendingOrgs = 0
  /\ orgCalls = [c \in OrgCallIds |-> IdleOrgCall]

WalletNext ==
  \/ connect
  \/ ConnectResolved
  \/ ConnectRejected
  \/ disconnect
  \/ KillSessionResolved
  \/ RefreshTick
  \/ BalanceResolved
  \/ BalanceRejected

PollNext ==
  \/ PollFetchResolved
  \/ PollFetchRejected
  \/ PollSleepElapsed

OrgNext ==
  \/ WalletNext
  \/ PollNext
  \/ GraphIndexes
  \/ createOrg
  \/ SubmitTxResolved
  \/ SubmitTxRejected
  \/ TxMined
  \/ WaitTxResolved
  \/ WaitTxRejected
  \/ FinalFetchResolved
  \/ FinalFetchRejected

(***************************************************************************)
(* Store-backed fetch operations: project.fetch and fetchList              *)
(* (ui/src/project.ts), session fetch, the project screen's fetch and the  *)
(* user profile's fetchProjects and fetchUser.  Each operation writes its  *)
(* own store only, so a behaviour follows one operation: the first one     *)
(* that is triggered.                                                      *)
(***************************************************************************)
FetchOps ==
  {"project.fetch", "project.fetchList", "session.fetch", "screen.fetch",
   "userProfile.fetchProjects", "userProfile.fetchUser"}

\* The requests an operation sends, in the order it awaits them.
Requests(op) ==
  IF op = "project.fetch" THEN <<"api.get projects/id">>
  ELSE IF op = "project.fetchList" THEN <<"api.get projects">>
  ELSE IF op = "session.fetch" THEN <<"api.get session">>
  ELSE IF op = "screen.fetch" THEN <<"project.get", "project.listPeers">>
  ELSE IF op = "userProfile.fetchProjects" THEN <<"project.fetchUserList">>
  ELSE <<"identity.fetch">>

\* The operations that call loading() before they send the request.
SetsLoading(op) == op \in {"project.fetch", "project.fetchList", "screen.fetch"}

\* Values a request is rejected with: an abort error, an error of the
\* proxy that has a code, and an exception that has none.
NoCode == "undefined"
UnknownException == "UnknownException"
AbortError == [name |-> "AbortError", code |-> RequestAbortError, source |-> "none"]
ProxyError == [name |-> "Error", code |-> "ProxyError", source |-> "none"]
TypeError == [name |-> "TypeError", code |-> NoCode, source |-> "none"]
RestErrors == {AbortError, ProxyError, TypeError}

\* throwUnlessPeersPresent: `new Error("Project ... is missing peers")`
MissingPeers == [name |-> "MissingPeers", code |-> NoCode, source |-> "none"]

\* error.fromUnknown: an error that has a code goes through, anything else
\* is wrapped in an UnknownException that names it as its source.
FromUnknown(err) ==
  IF err.code # NoCode THEN err
  ELSE [name |-> "Error", code |-> UnknownException, source |-> err.name]

\* error.fromException: the exception is wrapped in an UnknownException.
FromException(err) ==
  [name |-> "Error", code |-> UnknownException, source |-> err.name]

\* What an operation's reject handler hands to store.error.
Convert(op, err) ==
  IF op = "screen.fetch" THEN FromUnknown(err)
  ELSE IF op \in {"userProfile.fetchProjects", "userProfile.fetchUser"}
    THEN FromException(err)
  ELSE err

\* The reject handler of an operation: the value it leaves in the store and
\* the requests it sends.
RejectHandlerIgnores(s, op, err) == [store |-> s, issued |-> {}]

RejectHandlerRetries(s, op, err) ==
  [store |-> StoreError(s, Convert(op, err)), issued |-> {Requests(op)[1]}]

RejectHandler(s, op, err) ==
  [store |-> StoreError(s, Convert(op, err)), issued |-> {}]

\* The operation's success handler for a response with payload d; the
\* project screen throws when the peer selection made of the peers is empty.
ResolveHandler(s, op, d, peers) ==
  IF op = "screen.fetch" /\ peers = 0
    THEN StoreError(s, FromUnknown(MissingPeers))
    ELSE DataSuccess(d)

FetchFrame ==
  UNCHANGED <<storeVars, poolVars, walletVars, pollVars, orgVars, sourceVars,
              extVars>>

Stages == 1..2
NoFetchError == [name |-> "none", code |-> NoCode, source |-> "none"]

\* The user triggers the operation: loading() where the operation has it,
\* then the first request is sent.
fetch ==
  \E op \in FetchOps :
    /\ fetchOp \in {"none", op}
    /\ fetchOp' = op
    /\ fetchPending[1] + fetchPending[2] < MaxInFlight
    /\ fetchStore' = IF SetsLoading(op) THEN DataLoading ELSE fetchStore
    /\ fetchPending' = [fetchPending EXCEPT ![1] = @ + 1]
    /\ lastFetch' = [event |-> "triggered", err |-> NoFetchError]
    /\ autoReissued' = autoReissued \cup Reissued({Requests(op)[1]}, "user")
    /\ UNCHANGED <<failed>>
    /\ FetchFrame

\* A request that is not the last of the chain resolved: the next is sent.
FetchStepResolved ==
  \E i \in Stages :
    /\ i < Len(Requests(fetchOp))
    /\ fetchPending[i] > 0
    /\ fetchPending' = [fetchPending EXCEPT ![i] = @ - 1, ![i + 1] = @ + 1]
    /\ lastFetch' = [event |-> "step", err |-> NoFetchError]
    /\ autoReissued' =
         autoReissued \cup Reissued({Requests(fetchOp)[i + 1]}, "user")
    /\ UNCHANGED <<fetchOp, fetchStore, failed>>
    /\ FetchFrame

\* The last request of the chain resolved: the response goes to the store.
FetchResolved ==
  \E d \in Payloads, peers \in 0..MaxPeers :
    LET i == Len(Requests(fetchOp))
    IN /\ fetchPending[i] > 0
       /\ fetchPending' = [fetchPending EXCEPT ![i] = @ - 1]
       /\ fetchStore' = ResolveHandler(fetchStore, fetchOp, d, peers)
       /\ lastFetch' = [event |-> "resolved", err |-> NoFetchError]
       /\ UNCHANGED <<fetchOp, failed, autoReissued>>
       /\ FetchFrame

\* A request of the chain was rejected: the reject handler runs.
FetchRejected ==
  \E i \in Stages, err \in RestErrors :
    LET h == RejectHandler(fetchStore, fetchOp, err)
        sent == IF h.issued = {} THEN 0 ELSE 1
    IN /\ i <= Len(Requests(fetchOp))
       /\ fetchPending[i] > 0
       /\ fetchStore' = h.store
       /\ fetchPending' = IF i = 1
            THEN [fetchPending EXCEPT ![1] = @ - 1 + sent]
            ELSE [fetchPending EXCEPT ![i] = @ - 1, ![1] = @ + sent]
       /\ failed' = failed \cup {Requests(fetchOp)[i]}
       /\ autoReissued' = autoReissued \cup (h.issued \cap failed')
       /\ lastFetch' = [event |-> "rejected", err |-> err]
       /\ UNCHANGED <<fetchOp>>
       /\ FetchFrame

\* The last subscriber of the operation's store leaves: the stop notifier
\* of createStore runs.
FetchStoreStopped ==
  /\ fetchStore # StopNotifier(fetchStore)
  /\ fetchStore' = StopNotifier(fetchStore)
  /\ lastFetch' = [event |-> "stopped", err |-> NoFetchError]
  /\ UNCHANGED <<fetchOp, fetchPending, failed, autoReissued>>
  /\ FetchFrame

FetchInit ==
  /\ fetchOp = "none"
  /\ fetchStore = DataNotAsked
  /\ fetchPending = [i \in Stages |-> 0]
  /\ lastFetch = [event |-> "none", err |-> NoFetchError]

FetchNext ==
  \/ fetch
  \/ FetchStepResolved
  \/ FetchResolved
  \/ FetchRejected
  \/ FetchStoreStopped

\* The org polling loop and the wallet it waits for.
PollLoopNext ==
  \/ WalletNext
  \/ PollNext

\* The whole layer: the fetch operations and the background tasks.
LayerNext ==
  \/ FetchNext
  \/ WalletNext
  \/ PollNext

(***************************************************************************)
(* Project source screen (ui/src/screen/project/source.ts): fetch,         *)
(* selectPath, selectRevision, refreshPatches and fetchCode.  The screen   *)
(* is opened by one call of fetch and is mounted from then on, so          *)
(* screenStore has a subscriber and get(screenStore) only reads it.  A     *)
(* call keeps the screen data it read when it started (`screen.data`,      *)
(* `current`); the writables `code` and `tree` and the menuItems arrays    *)
(* are objects named by the call that made them.                           *)
(***************************************************************************)
SourceCallIds == 1..MaxCalls

\* null
None == 0

Branch(name) == [type |-> "branch", name |-> name]
Tag(name) == [type |-> "tag", name |-> name]
Revisions == {Branch("main"), Branch("dev"), Tag("dev")}
NoRevision == [type |-> "none", name |-> "none"]
Paths == {"", "README"}

\* defaultRevision: the project's default branch
defaultRevision == Branch("main")

\* The AbortControllers a call makes: `request` of selectRevision, of
\* fetchCode and of refreshPatches.
RevisionRequest(c) == 3 * c - 2
PathRequest(c) == 3 * c - 1
PatchRequest(c) == 3 * c

\* Lists of patches, by the merged flag of each patch: one merged patch
\* after up to MaxPatches open ones.
PatchLists ==
  {[i \in 1..(n + 1) |-> i = n + 1] : n \in 0..MaxPatches}

\* patches.filter(patch => !patch.merged).length
Unmerged(patches) == Cardinality({i \in DOMAIN patches : ~patches[i]})

\* ViewKind
Aborted == "ABORTED"
Blob == "BLOB"
ErrorView == "ERROR"
Root == "ROOT"

NoView == [lastCommit |-> NoRevision, path |-> "", kind |-> "none"]
NoScreen ==
  [code |-> None, tree |-> None, history |-> NoRevision, menuItems |-> None,
   patches |-> <<>>, requestInProgress |-> None,
   selectedRevision |-> [request |-> None, selected |-> NoRevision]]

IdleCall ==
  [kind |-> "none", pc |-> "idle", revision |-> NoRevision, path |-> "",
   tree |-> NoRevision, data |-> NoScreen, commits |-> "none",
   treecode |-> "none", code |-> NoView, patches |-> <<>>, during |-> {}]

\* A call that has ended keeps its kind, its outcome, for selectRevision
\* the revision it was called with and, for refreshPatches, the response
\* it got and the calls it overlapped.
Ended(call, pc) ==
  [IdleCall EXCEPT !.kind = call.kind, !.pc = pc,
                   !.revision = IF call.kind = "selectRevision"
                                  THEN call.revision ELSE NoRevision,
                   !.patches = IF call.kind = "refreshPatches"
                                 THEN call.patches ELSE <<>>,
                   !.during = call.during]

\* Errors a request of the screen is rejected with when it was not aborted.
SourceErrors == {TypeError}

SourceFrame ==
  UNCHANGED <<storeVars, poolVars, walletVars, pollVars, orgVars, fetchVars,
              callVars, extVars>>

\* Calls are numbered in the order they are made.
NextCall(c) ==
  /\ sourceCalls[c].pc = "idle"
  /\ \A d \in SourceCallIds : d < c => sourceCalls[d].pc # "idle"

\* The history keeps the latest run of selectRevision and of the then() of
\* refreshPatches; any other run is recorded as Other.
Ran(handler, c) ==
  [handler |-> handler, call |-> c, before |-> None, effects |-> <<>>]
Other == Ran("other", None)

\* The path request of call c is in flight.
PathInFlight(call) ==
  \/ call.kind = "selectPath" /\ call.pc = "path"
  \/ call.pc = "parallel" /\ call.treecode = "path"

\* fetchCode up to its await: the controllers it aborts.
FetchCodeAbortsNothing(currentPath) == {}

FetchCodeAborts(currentPath) ==
  IF currentPath.request # None THEN {currentPath.request} ELSE {}

\* fetchCode up to its await: pathStore.set({request, selected: path}).
FetchCodeSet(c, path) == [request |-> PathRequest(c), selected |-> path]

\* fetchCode after its await: the code it returns.
\* (fetchRoot takes lastCommit from the tree, fetchBlob from the blob).
FetchedCode(revision, tree, path) ==
  [lastCommit |-> IF path = "" THEN tree ELSE revision, path |-> path,
   kind |-> IF path = "" THEN Root ELSE Blob]

\* fetchCode's catch block.

CaughtCode(tree, path, name) ==
  [lastCommit |-> tree, path |-> path,
   kind |-> IF name = "AbortError" THEN Aborted ELSE ErrorView]

\* fetchCode after its await: pathStore is set unless the view is Aborted.
FetchCodeEnd(code, path, currentPath) ==
  IF code.kind # Aborted THEN [request |-> None, selected |-> path]
  ELSE currentPath

\* The signal handed to each request; None where the call hands none.
TreeSignal(call, c) ==
  IF call.kind = "selectRevision" THEN RevisionRequest(c) ELSE None
PathSignal(call, c) == PathRequest(c)
GetAllSignal(call, c) == None

\* What a request is rejected with: an AbortError exactly when its signal
\* was aborted.
Rejections(signal) == IF signal \in aborted THEN {AbortError} ELSE SourceErrors

Effect(op, request) == [op |-> op, request |-> request]

\* selectRevision up to its await, as the calls it makes, in order.
selectRevisionNoAbort(current, c) ==
  <<Effect("screenStore.success", RevisionRequest(c)),
    Effect("fetchCommits", None),
    Effect("fetchTree", RevisionRequest(c))>>

selectRevisionRun(current, c) ==
  (IF current.request # None
     THEN <<Effect("abort", current.request)>> ELSE <<>>)
  \o <<Effect("screenStore.success", RevisionRequest(c)),
       Effect("fetchCommits", None),
       Effect("fetchTree", RevisionRequest(c))>>

AbortedBy(effects) ==
  {effects[i].request : i \in {j \in DOMAIN effects : effects[j].op = "abort"}}

\* fetch(project, peer) up to its await on fetchRevisions.  It is the call
\* that opens the screen: the other calls follow it.
fetchSource ==
  \E c \in SourceCallIds :
    /\ NextCall(c)
    /\ \A d \in SourceCallIds : sourceCalls[d].pc = "idle"
    /\ screen' = IF ~Is(screen, Success) THEN DataLoading ELSE screen
    /\ sourceCalls' = [sourceCalls EXCEPT ![c] =
         [IdleCall EXCEPT !.kind = "fetch", !.pc = "revisions"]]
    /\ lastRun' = Other
    /\ UNCHANGED <<pathStore, aborted, codeStore, treeStore, counters>>
    /\ SourceFrame

\* fetch: fetchRevisions resolved, patch.getAll is sent.
RevisionsResolved ==
  \E c \in SourceCallIds :
    /\ sourceCalls[c].kind = "fetch"
    /\ sourceCalls[c].pc = "revisions"
    /\ sourceCalls' = [sourceCalls EXCEPT ![c].pc = "patches"]
    /\ lastRun' = Other
    /\ UNCHANGED <<screen, pathStore, aborted, codeStore, treeStore, counters>>
    /\ SourceFrame

\* fetch: patch.getAll resolved; fetchCommits and fetchTree are sent for
\* the default revision.
FetchPatchesResolved ==
  \E c \in SourceCallIds, p \in PatchLists :
    /\ sourceCalls[c].kind = "fetch"
    /\ sourceCalls[c].pc = "patches"
    /\ sourceCalls' = [sourceCalls EXCEPT ![c] =
         [@ EXCEPT !.pc = "parallel", !.patches = p,
                   !.revision = defaultRevision,
                   !.commits = "pending", !.treecode = "tree"]]
    /\ lastRun' = Other
    /\ UNCHANGED <<screen, pathStore, aborted, codeStore, treeStore, counters>>
    /\ SourceFrame

\* fetch: fetchRevisions or patch.getAll was rejected, the catch block runs.
FetchStartRejected ==
  \E c \in SourceCallIds, err \in SourceErrors :
    /\ sourceCalls[c].kind = "fetch"
    /\ sourceCalls[c].pc \in {"revisions", "patches"}
    /\ screen' = StoreError(screen, FromUnknown(err))
    /\ sourceCalls' = [sourceCalls EXCEPT ![c] = Ended(@, "failed")]
    /\ lastRun' = Other
    /\ UNCHANGED <<pathStore, aborted, codeStore, treeStore, counters>>
    /\ SourceFrame

\* Promise.all resolved: the end of fetch (new writables, new menuItems) or
\* of selectRevision (code.set, tree.set and the store written from the
\* screen data read when the call started).
Finish(c, call, code) ==
  IF call.kind = "fetch"
    THEN /\ codeStore' = [codeStore EXCEPT ![c] = code]
         /\ treeStore' = [treeStore EXCEPT ![c] = call.tree]
         /\ counters' = [counters EXCEPT ![c] = Unmerged(call.patches)]
         /\ screen' = DataSuccess(
              [code |-> c, tree |-> c, history |-> call.revision,
               menuItems |-> c, patches |-> call.patches,
               requestInProgress |-> None,
               selectedRevision |->
                 [request |-> None, selected |-> call.revision]])
    ELSE /\ codeStore' = [codeStore EXCEPT ![call.data.code] = code]
         /\ treeStore' = [treeStore EXCEPT ![call.data.tree] = call.tree]
         /\ counters' = [counters EXCEPT ![c] = Unmerged(call.data.patches)]
         /\ screen' = DataSuccess(
              [call.data EXCEPT
                 !.history = call.revision,
                 !.menuItems = c,
                 !.selectedRevision =
                   [request |-> None, selected |-> call.revision]])

\* fetchCommits resolved.
CommitsResolved ==
  \E c \in SourceCallIds :
    LET call == sourceCalls[c]
    IN /\ call.pc = "parallel"
       /\ call.commits = "pending"
       /\ IF call.treecode = "ok"
            THEN /\ Finish(c, call, call.code)
                 /\ sourceCalls' = [sourceCalls EXCEPT ![c] = Ended(call, "done")]
            ELSE /\ sourceCalls' = [sourceCalls EXCEPT ![c].commits = "ok"]
                 /\ UNCHANGED <<screen, codeStore, treeStore, counters>>
       /\ lastRun' = Other
       /\ UNCHANGED <<pathStore, aborted>>
       /\ SourceFrame

\* fetchCommits was rejected: Promise.all is rejected and the catch block
\* runs, while fetchTreeCode / fetchTreeRoot goes on.
CommitsRejected ==
  \E c \in SourceCallIds, err \in SourceErrors :
    LET call == sourceCalls[c]
    IN /\ call.pc = "parallel"
       /\ call.commits = "pending"
       /\ screen' = StoreError(screen, FromUnknown(err))
       /\ sourceCalls' = [sourceCalls EXCEPT ![c] =
            IF call.treecode = "ok" THEN Ended(call, "failed")
            ELSE [call EXCEPT !.commits = "failed"]]
       /\ lastRun' = Other
       /\ UNCHANGED <<pathStore, aborted, codeStore, treeStore, counters>>
       /\ SourceFrame

\* fetchTree resolved: fetchCode runs up to its await, for the root in
\* fetch and for the selected path in selectRevision.
TreeResolved ==
  \E c \in SourceCallIds :
    LET call == sourceCalls[c]
        path == IF call.kind = "fetch" THEN "" ELSE pathStore.selected
    IN /\ call.pc = "parallel"
       /\ call.treecode = "tree"
       /\ TreeSignal(call, c) \notin aborted
       /\ aborted' = aborted \cup FetchCodeAborts(pathStore)
       /\ pathStore' = FetchCodeSet(c, path)
       /\ sourceCalls' = [sourceCalls EXCEPT ![c] =
            [call EXCEPT !.treecode = "path", !.path = path,
                         !.tree = call.revision]]
       /\ lastRun' = Other
       /\ UNCHANGED <<screen, codeStore, treeStore, counters>>
       /\ SourceFrame

\* fetchTree was rejected: Promise.all is rejected, unless it was already,
\* and the catch block runs.
TreeRejected ==
  \E c \in SourceCallIds :
    \E err \in Rejections(TreeSignal(sourceCalls[c], c)) :
      LET call == sourceCalls[c]
      IN /\ call.pc = "parallel"
         /\ call.treecode = "tree"
         /\ screen' = IF call.commits = "failed" THEN screen
                      ELSE StoreError(screen, FromUnknown(err))
         /\ sourceCalls' = [sourceCalls EXCEPT ![c] = Ended(call, "failed")]
         /\ lastRun' = Other
         /\ UNCHANGED <<pathStore, aborted, codeStore, treeStore, counters>>
         /\ SourceFrame

\* What the caller of fetchCode does with the code it returns.
AfterFetchCode(c, call, code) ==
  IF call.kind = "selectPath"
    THEN /\ codeStore' = IF code.kind # Aborted
                           THEN [codeStore EXCEPT ![call.data.code] = code]
                           ELSE codeStore
         /\ sourceCalls' = [sourceCalls EXCEPT ![c] = Ended(call, "done")]
         /\ UNCHANGED <<screen, treeStore, counters>>
    ELSE IF call.commits = "ok"
      THEN /\ Finish(c, call, code)
           /\ sourceCalls' = [sourceCalls EXCEPT ![c] = Ended(call, "done")]
      ELSE /\ sourceCalls' = [sourceCalls EXCEPT ![c] =
                IF call.commits = "failed" THEN Ended(call, "failed")
                ELSE [call EXCEPT !.treecode = "ok", !.code = code]]
           /\ UNCHANGED <<screen, codeStore, treeStore, counters>>

\* The readme or blob request of fetchCode resolved.
PathResolved ==
  \E c \in SourceCallIds :
    LET call == sourceCalls[c]
        code == FetchedCode(call.revision, call.tree, call.path)
    IN /\ PathInFlight(call)
       /\ PathSignal(call, c) \notin aborted
       /\ pathStore' = FetchCodeEnd(code, call.path, pathStore)
       /\ AfterFetchCode(c, call, code)
       /\ lastRun' = Other
       /\ UNCHANGED <<aborted>>
       /\ SourceFrame

\* The readme or blob request of fetchCode was rejected: the catch block
\* makes an Aborted or an Error view.
PathRejected ==
  \E c \in SourceCallIds :
    \E err \in Rejections(PathSignal(sourceCalls[c], c)) :
      LET call == sourceCalls[c]
          code == CaughtCode(call.tree, call.path, err.name)
      IN /\ PathInFlight(call)
         /\ pathStore' = FetchCodeEnd(code, call.path, pathStore)
         /\ AfterFetchCode(c, call, code)
         /\ lastRun' = Other
         /\ UNCHANGED <<aborted>>
         /\ SourceFrame

\* selectPath(path) up to the await in fetchCode.
selectPath ==
  \E c \in SourceCallIds, path \in Paths :
    /\ NextCall(c)
    /\ Is(screen, Success)
    /\ pathStore.selected # path
    /\ aborted' = aborted \cup FetchCodeAborts(pathStore)
    /\ pathStore' = FetchCodeSet(c, path)
    /\ sourceCalls' = [sourceCalls EXCEPT ![c] =
         [IdleCall EXCEPT !.kind = "selectPath", !.pc = "path", !.path = path,
            !.revision = screen.data.selectedRevision.selected,
            !.tree = treeStore[screen.data.tree],
            !.data = screen.data]]
    /\ lastRun' = Other
    /\ UNCHANGED <<screen, codeStore, treeStore, counters>>
    /\ SourceFrame

\* selectRevision(revision) up to its await on Promise.all.
selectRevision ==
  \E c \in SourceCallIds, revision \in Revisions :
    /\ NextCall(c)
    /\ Is(screen, Success)
    /\ LET current == screen.data.selectedRevision
           run == selectRevisionRun(current, c)
       IN /\ ~(current.selected.type = revision.type
                /\ current.selected.name = revision.name)
          /\ aborted' = aborted \cup AbortedBy(run)
          /\ screen' = DataSuccess(
               [screen.data EXCEPT !.selectedRevision =
                  [request |-> RevisionRequest(c), selected |-> revision]])
          /\ sourceCalls' = [sourceCalls EXCEPT ![c] =
               [IdleCall EXCEPT !.kind = "selectRevision", !.pc = "parallel",
                  !.revision = revision, !.data = screen.data,
                  !.commits = "pending", !.treecode = "tree"]]
          /\ lastRun' = [handler |-> "selectRevision", call |-> c,
                         before |-> current.request, effects |-> run]
    /\ UNCHANGED <<pathStore, codeStore, treeStore, counters>>
    /\ SourceFrame

\* refreshPatches() (called by watchPatchUpdates on a project event) up to
\* the then() of patch.getAll.
refreshPatches ==
  \E c \in SourceCallIds :
    /\ NextCall(c)
    /\ Is(screen, Success)
    /\ LET current == screen.data
       IN /\ aborted' = aborted \cup
               (IF current.requestInProgress # None
                  THEN {current.requestInProgress} ELSE {})
          /\ screen' = DataSuccess(
               [current EXCEPT !.requestInProgress = PatchRequest(c)])
          /\ sourceCalls' = [sourceCalls EXCEPT ![c] =
               [IdleCall EXCEPT !.kind = "refreshPatches", !.pc = "patches",
                  !.data = current,
                  !.during = {d \in SourceCallIds :
                                /\ sourceCalls[d].kind = "refreshPatches"
                                /\ sourceCalls[d].pc = "patches"}]]
    /\ lastRun' = Other
    /\ UNCHANGED <<pathStore, codeStore, treeStore, counters>>
    /\ SourceFrame

\* refreshPatches: patch.getAll resolved; the counter of the menuItems
\* array the call read is set in place and the store is written from the
\* screen data the call read.
PatchesResolved ==
  \E c \in SourceCallIds, p \in PatchLists :
    LET call == sourceCalls[c]
    IN /\ call.kind = "refreshPatches"
       /\ call.pc = "patches"
       /\ GetAllSignal(call, c) \notin aborted
       /\ counters' = [counters EXCEPT ![call.data.menuItems] = Unmerged(p)]
       /\ screen' = DataSuccess(
            [call.data EXCEPT !.patches = p, !.requestInProgress = None])
       /\ sourceCalls' = [sourceCalls EXCEPT ![c] =
            Ended([call EXCEPT !.patches = p], "done")]
       /\ lastRun' = Ran("PatchesResolved", c)
       /\ UNCHANGED <<pathStore, aborted, codeStore, treeStore>>
       /\ SourceFrame

\* refreshPatches: patch.getAll was rejected.
PatchesRejected ==
  \E c \in SourceCallIds :
    \E err \in Rejections(GetAllSignal(sourceCalls[c], c)) :
      LET call == sourceCalls[c]
      IN /\ call.kind = "refreshPatches"
         /\ call.pc = "patches"
         /\ screen' = StoreError(screen, FromUnknown(err))
         /\ sourceCalls' = [sourceCalls EXCEPT ![c] = Ended(call, "failed")]
         /\ lastRun' = Other
         /\ UNCHANGED <<pathStore, aborted, codeStore, treeStore, counters>>
         /\ SourceFrame

SourceInit ==
  /\ screen = DataNotAsked
  /\ pathStore = [request |-> None, selected |-> ""]
  /\ aborted = {}
  /\ codeStore = [c \in SourceCallIds |-> NoView]
  /\ treeStore = [c \in SourceCallIds |-> NoRevision]
  /\ counters = [c \in SourceCallIds |-> 0]
  /\ sourceCalls = [c \in SourceCallIds |-> IdleCall]
  /\ lastRun = Other

SourceNext ==
  \/ fetchSource
  \/ RevisionsResolved
  \/ FetchPatchesResolved
  \/ FetchStartRejected
  \/ CommitsResolved
  \/ CommitsRejected
  \/ TreeResolved
  \/ TreeRejected
  \/ PathResolved
  \/ PathRejected
  \/ selectPath
  \/ selectRevision
  \/ refreshPatches
  \/ PatchesResolved
  \/ PatchesRejected

(***************************************************************************)
(* Feature flags: native/preload.js sets window.electron from the          *)
(* environment of the process, ui/src/ipc.ts reads it, and mapRevisions of *)
(* the source screen makes the revision list of the response of            *)
(* fetchRevisions.                                                         *)
(***************************************************************************)
Unset == "unset"
NodeEnvs == {Unset, "development", "production"}
ExperimentalEnvs == {Unset, "true", "false"}
NoEnv == [NODE_ENV |-> "none", RADICLE_UPSTREAM_EXPERIMENTAL |-> "none"]

\* preload.js: window.electron.isDev and window.electron.isExperimental
Preload(env) ==
  [isDev |-> env.NODE_ENV = "development",
   isExperimental |-> env.RADICLE_UPSTREAM_EXPERIMENTAL = "true"]

\* ipc.ts
isDev(e) == e.isDev

isExperimentalFlagOnly(e) == e.isExperimental

isExperimental(e) == isDev(e) /\ e.isExperimental

\* Sequences of at most n elements of S
SeqsUpTo(S, n) == UNION {[1..k -> S] : k \in 0..n}

\* Responses of fetchRevisions: the branches (at least the default branch)
\* and the tags of the repository.
NoRevisions == [branches |-> <<>>, tags |-> <<>>]
RevisionResponses ==
  [branches : SeqsUpTo({Branch("main"), Branch("dev")}, MaxListed) \ {<<>>},
   tags : SeqsUpTo({Tag("dev"), Tag("v1")}, MaxListed)]

\* mapRevisions
mapRevisions(revisions, e) ==
  IF isExperimental(e) THEN revisions.branches \o revisions.tags
  ELSE revisions.branches

\* The app starts: the preload script runs in the environment it was
\* started with.
preload ==
  \E node \in NodeEnvs, experimental \in ExperimentalEnvs :
    LET env == [NODE_ENV |-> node, RADICLE_UPSTREAM_EXPERIMENTAL |-> experimental]
    IN /\ processEnv = NoEnv
       /\ processEnv' = env
       /\ electron' = Preload(env)
       /\ UNCHANGED <<revisionsResponse, revisionList>>
       /\ FlagFrame

\* fetch of the source screen: fetchRevisions resolved and the screen's
\* `revisions` are made of the response.
revisionsFetched ==
  \E r \in RevisionResponses :
    /\ processEnv # NoEnv
    /\ revisionsResponse' = r
    /\ revisionList' = mapRevisions(r, electron)
    /\ UNCHANGED <<processEnv, electron>>
    /\ FlagFrame

FlagInit ==
  /\ processEnv = NoEnv
  /\ electron = Preload(NoEnv)
  /\ revisionsResponse = NoRevisions
  /\ revisionList = <<>>

FlagNext ==
  \/ preload
  \/ revisionsFetched

(***************************************************************************)
(* Global hotkeys (initializeHotkeys) over svelte-spa-router: push(path)   *)
(* sets the location hash, which adds a history entry unless the hash is   *)
(* the current one; pop() is history.back().  Both act after the handler   *)
(* has returned, in an order the handler does not fix.                     *)
(***************************************************************************)
HomeRoute == "/projects"
\* The routes of the modals: those the esc handler closes.
ModalRoutes ==
  {"/help", "/design-system-guide", "/projects/new", "/projects/register",
   "/identity/new", "/user-registration"}

\* The route each hotkey opens.
HotkeyRoute(key) ==
  IF key = "shift+d" THEN "/design-system-guide"
  ELSE IF key = "shift+t" THEN "/user-registration"
  ELSE IF key = "shift+/" THEN "/help"
  ELSE "/identity/new"
OpenKeys == {"shift+d", "shift+t", "shift+/", "shift+i"}

\* get(location)
Location(h) == h[Len(h)]

\* path.active(route, location)
active(route, location) == route = location

\* svelte-spa-router
push(h, route) == IF route = Location(h) THEN h ELSE Append(h, route)
pop(h) == IF Len(h) > 1 THEN SubSeq(h, 1, Len(h) - 1) ELSE h

\* The handler of shift+d, shift+t, shift+/ and shift+i: the histories it
\* can leave.
OpenModal(h, route) ==
  IF active(route, Location(h))
    THEN {push(pop(h), route), pop(push(h, route))}
    ELSE {push(h, route)}

\* The handler of esc.
CloseModal(h) ==
  IF \E route \in ModalRoutes : active(route, Location(h)) THEN pop(h) ELSE h

hotkeyOpen ==
  \E key \in OpenKeys :
    \E h \in OpenModal(routerHistory, HotkeyRoute(key)) :
      /\ Len(h) <= MaxHistory
      /\ routerHistory' = h
      /\ HotkeyFrame

hotkeyEsc ==
  /\ routerHistory' = CloseModal(routerHistory)
  /\ HotkeyFrame

HotkeyInit == routerHistory = <<HomeRoute>>

HotkeyNext ==
  \/ hotkeyOpen
  \/ hotkeyEsc

(***************************************************************************)
(* Session (ui/src/session.ts): fetch, fetchSession, updateSettings,       *)
(* updateAppearance and updateRegistry.  Of the session data the model     *)
(* keeps the settings.                                                     *)
(***************************************************************************)
Appearances == {"light", "dark"}
Registries == {"emulator", "testnet"}
SettingsValues == [appearance : Appearances, registry : Registries]

\* A field an object does not have, and the value null.
Missing == "undefined"
Null == [appearance |-> "null", registry |-> "null"]

\* The derived store `settings`.
DerivedSettings(sess) == IF sess.status = Success THEN sess.data ELSE Null

\* The spread `{ ...value }`: null has no fields to copy.
Spread(value) ==
  IF value = Null THEN [appearance |-> Missing, registry |-> Missing] ELSE value

\* `{ ...get(settings), appearance }` and `{ ...get(settings), registry }`
AppearanceBody(sess, a) == [Spread(DerivedSettings(sess)) EXCEPT !.appearance = a]
RegistryBody(sess, r) == [Spread(DerivedSettings(sess)) EXCEPT !.registry = r]

SessionErrors == {[code |-> "ProxyError"]}
SessionSubscribers == IF sessionSubscribed THEN 1 ELSE 0
SessionRequests == Cardinality(settingsUpdates) + sessionGets
SessionStep(step, call) ==
  [step |-> step, before |-> sessionStore, gets |-> sessionGets,
   appearance |-> call.appearance, current |-> call.current,
   body |-> call.body]
NoCall == [appearance |-> Missing, current |-> Null, body |-> Null]

\* The app shell subscribes to the session, or is destroyed: the stop
\* notifier of createStore then runs.
sessionSubscribe ==
  /\ ~sessionSubscribed
  /\ sessionSubscribed' = TRUE
  /\ lastSession' = SessionStep("subscribe", NoCall)
  /\ UNCHANGED <<sessionStore, proxySettings, settingsUpdates, sessionGets>>
  /\ SessionFrame

sessionUnsubscribe ==
  /\ sessionSubscribed
  /\ sessionSubscribed' = FALSE
  /\ sessionStore' = StopNotifier(sessionStore)
  /\ lastSession' = SessionStep("unsubscribe", NoCall)
  /\ UNCHANGED <<proxySettings, settingsUpdates, sessionGets>>
  /\ SessionFrame

\* fetch(): loading(), then fetchSession sends `GET session`.
sessionFetch ==
  /\ SessionRequests < MaxSessionRequests
  /\ sessionStore' = DataLoading
  /\ sessionGets' = sessionGets + 1
  /\ lastSession' = SessionStep("fetch", NoCall)
  /\ UNCHANGED <<sessionSubscribed, proxySettings, settingsUpdates>>
  /\ SessionFrame

\* fetchSession: the response goes to sessionStore.success.
GetSessionResolved ==
  /\ sessionGets > 0
  /\ sessionGets' = sessionGets - 1
  /\ sessionStore' = DataSuccess(proxySettings)
  /\ lastSession' = SessionStep("GetSessionResolved", NoCall)
  /\ UNCHANGED <<sessionSubscribed, proxySettings, settingsUpdates>>
  /\ SessionFrame

\* fetchSession: the error goes to sessionStore.error.
GetSessionRejected ==
  \E err \in SessionErrors :
    /\ sessionGets > 0
    /\ sessionGets' = sessionGets - 1
    /\ sessionStore' = StoreError(sessionStore, err)
    /\ lastSession' = SessionStep("GetSessionRejected", NoCall)
    /\ UNCHANGED <<sessionSubscribed, proxySettings, settingsUpdates>>
    /\ SessionFrame

\* updateAppearance / updateRegistry: get(settings) reads the session store
\* (and leaves it as get leaves it), the body is made and updateSettings
\* sends it.
UpdateSettingsCall(step, a, body) ==
  /\ SessionRequests < MaxSessionRequests
  /\ body \notin settingsUpdates
  /\ settingsUpdates' = settingsUpdates \cup {body}
  /\ sessionStore' = GetAfter(sessionStore, SessionSubscribers)
  /\ lastSession' =
       SessionStep(step, [appearance |-> a,
                          current |-> DerivedSettings(sessionStore),
                          body |-> body])
  /\ UNCHANGED <<sessionSubscribed, proxySettings, sessionGets>>
  /\ SessionFrame

updateAppearance ==
  \E a \in Appearances :
    UpdateSettingsCall("updateAppearance", a, AppearanceBody(sessionStore, a))

updateRegistry ==
  \E r \in Registries :
    UpdateSettingsCall("updateRegistry", Missing, RegistryBody(sessionStore, r))

\* What updateSettings does when the update succeeded and when it failed:
\* the number of `GET session` requests it sends.
OnUpdateResolved == 1
OnUpdateRejected == 0

\* The proxy stored the settings of the body: then(fetchSession).
UpdateResolved ==
  \E body \in settingsUpdates :
    /\ body \in SettingsValues
    /\ proxySettings' = body
    /\ settingsUpdates' = settingsUpdates \ {body}
    /\ sessionGets' = sessionGets + OnUpdateResolved
    /\ lastSession' = SessionStep("UpdateResolved", NoCall)
    /\ UNCHANGED <<sessionStore, sessionSubscribed>>
    /\ SessionFrame

\* The update failed (a body that lacks a field can only fail): the catch
\* handler shows a notification.
UpdateRejected ==
  \E body \in settingsUpdates :
    /\ settingsUpdates' = settingsUpdates \ {body}
    /\ sessionGets' = sessionGets + OnUpdateRejected
    /\ lastSession' = SessionStep("UpdateRejected", NoCall)
    /\ UNCHANGED <<sessionStore, sessionSubscribed, proxySettings>>
    /\ SessionFrame

SessionInit ==
  /\ sessionStore = DataNotAsked
  /\ sessionSubscribed = FALSE
  /\ proxySettings = [appearance |-> "light", registry |-> "emulator"]
  /\ settingsUpdates = {}
  /\ sessionGets = 0
  /\ lastSession = [step |-> "none", before |-> DataNotAsked, gets |-> 0,
                    appearance |-> Missing, current |-> Null, body |-> Null]

SessionNext ==
  \/ sessionSubscribe
  \/ sessionUnsubscribe
  \/ sessionFetch
  \/ GetSessionResolved
  \/ GetSessionRejected
  \/ updateAppearance
  \/ updateRegistry
  \/ UpdateResolved
  \/ UpdateRejected

(***************************************************************************)
(* Main window (native/main.ts): the will-navigate and new-window handlers *)
(* of WindowManager.open, the OPEN_URL handler and openExternalLink.  A    *)
(* URL is the sequence of its characters.                                  *)
(***************************************************************************)
UrlStarts ==
  {<<"h", "t", "t", "p", ":", "/", "/">>,
   <<"H", "T", "T", "P", ":", "/", "/">>,
   <<"h", "T", "t", "P", ":", "/", "/">>,
   <<"h", "t", "t", "p", "s", ":", "/", "/">>,
   <<"H", "t", "t", "p", "S", ":", "/", "/">>,
   <<"h", "t", "t", "p", ":", "/">>,
   <<"t", "t", "p", ":", "/", "/">>,
   <<"f", "i", "l", "e", ":", "/", "/">>,
   <<"f", "t", "p", ":", "/", "/">>,
   <<"j", "a", "v", "a", "s", "c", "r", "i", "p", "t", ":">>,
   <<" ", "h", "t", "t", "p", ":", "/", "/">>,
   <<>>}
UrlRest == <<"x">>
Urls == {start \o UrlRest : start \in UrlStarts}
AppUrl == <<"f", "i", "l", "e", ":", "/", "/", "i", "n", "d", "e", "x", ".", "h", "t", "m", "l">>

\* String.prototype.toLowerCase, on the letters the URLs are made of
LowerOf(ch) ==
  IF ch = "H" THEN "h" ELSE IF ch = "T" THEN "t" ELSE IF ch = "P" THEN "p"
  ELSE IF ch = "S" THEN "s" ELSE ch
toLowerCase(str) == [i \in DOMAIN str |-> LowerOf(str[i])]

\* String.prototype.startsWith
startsWith(str, prefix) ==
  /\ Len(str) >= Len(prefix)
  /\ SubSeq(str, 1, Len(prefix)) = prefix

\* openExternalLink: the URLs it hands to shell.openExternal
openExternalLinkAnyScheme(url) == {url}

openExternalLink(url) ==
  IF \/ startsWith(toLowerCase(url), <<"h", "t", "t", "p", ":", "/", "/">>)
     \/ startsWith(toLowerCase(url), <<"h", "t", "t", "p", "s", ":", "/", "/">>)
    THEN {url} ELSE {}

\* The handlers of will-navigate and new-window: event.preventDefault() and
\* openExternalLink(url).
OnWindowEvent(url) == [prevented |-> TRUE, opened |-> openExternalLink(url)]

\* The handler of the OPEN_URL call.
OnOpenUrl(url) == [opened |-> openExternalLink(url)]

\* The page starts a navigation of the window (a link is clicked).
willNavigate ==
  \E url \in Urls :
    LET h == OnWindowEvent(url)
    IN /\ windowUrl' = IF h.prevented THEN windowUrl ELSE url
       /\ externalOpened' = externalOpened \cup h.opened
       /\ lastNav' = [event |-> "will-navigate", url |-> url]
       /\ UNCHANGED childWindows
       /\ WindowFrame

\* The page asks for a new window (target=_blank, window.open).
newWindow ==
  \E url \in Urls :
    LET h == OnWindowEvent(url)
    IN /\ childWindows' = IF h.prevented THEN childWindows ELSE 1
       /\ externalOpened' = externalOpened \cup h.opened
       /\ lastNav' = [event |-> "new-window", url |-> url]
       /\ UNCHANGED windowUrl
       /\ WindowFrame

\* The renderer invokes OPEN_URL.
openUrl ==
  \E url \in Urls :
    /\ externalOpened' = externalOpened \cup OnOpenUrl(url).opened
    /\ lastNav' = [event |-> "OPEN_URL", url |-> url]
    /\ UNCHANGED <<windowUrl, childWindows>>
    /\ WindowFrame

WindowInit ==
  /\ windowUrl = AppUrl
  /\ childWindows = 0
  /\ externalOpened = {}
  /\ lastNav = [event |-> "none", url |-> <<>>]

WindowNext ==
  \/ willNavigate
  \/ newWindow
  \/ openUrl

(***************************************************************************)
(* resolveProjectAnchors (ui/src/org.ts).  An anchor is its position in    *)
(* `anchors` and its type; a project of anchoredProjects is its anchor.    *)
(***************************************************************************)
Anchor(id, type) == [id |-> id, type |-> type]

\* `[...pendingAnchors, ...confirmedAnchors]` for np pending and nc
\* confirmed anchors
SpreadAnchors(np, nc) ==
  [i \in 1..(np + nc) |->
     Anchor(i, IF i <= np THEN "pending" ELSE "confirmed")]

\* The comparator handed to anchoredProjects.sort
compareAnchorsUnordered(a, b) == 0

compareAnchors(a, b) ==
  IF a.type = "pending" /\ b.type = "pending" THEN 0
  ELSE IF a.type = "pending" /\ b.type = "confirmed" THEN 0 - 1
  ELSE 1

InsertAt(sorted, pos, x) ==
  SubSeq(sorted, 1, pos - 1) \o <<x>> \o SubSeq(sorted, pos, Len(sorted))

\* Array.prototype.sort on a short array is an insertion sort.  The
\* comparator is not a consistent one (it orders two confirmed anchors both
\* ways), so the order depends on the test the engine makes: V8 looks for
\* the place of the pivot by bisection with the test `order < 0`; the other
\* engine modelled moves the pivot left while `order > 0`.
RECURSIVE BisectPlace(_, _, _, _)
BisectPlace(sorted, pivot, left, right) ==
  IF left >= right THEN left
  ELSE LET mid == left + ((right - left) \div 2)
       IN IF compareAnchors(pivot, sorted[mid]) < 0
            THEN BisectPlace(sorted, pivot, left, mid)
            ELSE BisectPlace(sorted, pivot, mid + 1, right)

RECURSIVE ShiftPlace(_, _, _)
ShiftPlace(sorted, pivot, j) ==
  IF j >= 1 /\ compareAnchors(sorted[j], pivot) > 0
    THEN ShiftPlace(sorted, pivot, j - 1)
    ELSE j + 1

SortEngines == {"bisect", "shift"}

RECURSIVE InsertionSort(_, _, _)
InsertionSort(engine, sorted, rest) ==
  IF rest = <<>> THEN sorted
  ELSE LET pivot == Head(rest)
           place == IF engine = "bisect"
                      THEN BisectPlace(sorted, pivot, 1, Len(sorted) + 1)
                      ELSE ShiftPlace(sorted, pivot, Len(sorted))
       IN InsertionSort(engine, InsertAt(sorted, place, pivot), Tail(rest))

sort(engine, array) == InsertionSort(engine, <<>>, array)

\* resolveProjectAnchors(org) up to its await on fetchPendingAnchors.
resolveProjectAnchors ==
  /\ anchorPc = "idle"
  /\ anchorPc' = "fetchPendingAnchors"
  /\ UNCHANGED <<anchors, anchorGets, anchoredProjects, unresolvedAnchors, pushed>>
  /\ AnchorFrame

\* fetchPendingAnchors resolved with np anchors.
PendingAnchorsResolved ==
  \E np \in 0..MaxAnchors :
    /\ anchorPc = "fetchPendingAnchors"
    /\ anchorPc' = "getOrgProjectAnchors"
    /\ anchors' = SpreadAnchors(np, 0)
    /\ UNCHANGED <<anchorGets, anchoredProjects, unresolvedAnchors, pushed>>
    /\ AnchorFrame

\* getOrgProjectAnchors resolved with nc anchors: a project.get is sent for
\* every anchor.
ConfirmedAnchorsResolved ==
  \E nc \in 0..(MaxAnchors - Len(anchors)) :
    /\ anchorPc = "getOrgProjectAnchors"
    /\ anchorPc' = "Promise.all"
    /\ anchors' = SpreadAnchors(Len(anchors), nc)
    /\ anchorGets' = 1..(Len(anchors) + nc)
    /\ UNCHANGED <<anchoredProjects, unresolvedAnchors, pushed>>
    /\ AnchorFrame

\* fetchPendingAnchors or getOrgProjectAnchors was rejected: the call is
\* rejected.
AnchorsRejected ==
  /\ anchorPc \in {"fetchPendingAnchors", "getOrgProjectAnchors"}
  /\ anchorPc' = "rejected"
  /\ UNCHANGED <<anchors, anchorGets, anchoredProjects, unresolvedAnchors, pushed>>
  /\ AnchorFrame

\* The project of an anchor was fetched.
ProjectResolved ==
  \E i \in anchorGets :
    /\ anchorGets' = anchorGets \ {i}
    /\ anchoredProjects' = Append(anchoredProjects, anchors[i])
    /\ pushed' = anchoredProjects'
    /\ UNCHANGED <<anchorPc, anchors, unresolvedAnchors>>
    /\ AnchorFrame

\* The project of an anchor could not be fetched.
ProjectRejected ==
  \E i \in anchorGets :
    /\ anchorGets' = anchorGets \ {i}
    /\ unresolvedAnchors' = Append(unresolvedAnchors, anchors[i])
    /\ UNCHANGED <<anchorPc, anchors, anchoredProjects, pushed>>
    /\ AnchorFrame

\* Promise.all resolved: anchoredProjects is sorted and both arrays are
\* returned.
AnchorsSettled ==
  \E engine \in SortEngines :
    /\ anchorPc = "Promise.all"
    /\ anchorGets = {}
    /\ anchoredProjects' = sort(engine, anchoredProjects)
    /\ anchorPc' = "returned"
    /\ UNCHANGED <<anchors, anchorGets, unresolvedAnchors, pushed>>
    /\ AnchorFrame

AnchorInit ==
  /\ anchorPc = "idle"
  /\ anchors = <<>>
  /\ anchorGets = {}
  /\ anchoredProjects = <<>>
  /\ unresolvedAnchors = <<>>
  /\ pushed = <<>>

AnchorNext ==
  \/ resolveProjectAnchors
  \/ PendingAnchorsResolved
  \/ ConfirmedAnchorsResolved
  \/ AnchorsRejected
  \/ ProjectResolved
  \/ ProjectRejected
  \/ AnchorsSettled

(***************************************************************************)
(* The projects store (ui/src/project.ts): a createStore whose start       *)
(* notifier is fetchList.  svelte calls the notifier when the number of    *)
(* subscribers goes from none to one; fetchList returns nothing, so        *)
(* nothing runs when the last subscriber leaves.                           *)
(***************************************************************************)
\* update, case Kind.FetchList: the store and the number of requests sent
FetchListNoLoading(s, issued) == [store |-> s, issued |-> issued + 1]

FetchList(s, issued) == [store |-> DataLoading, issued |-> issued + 1]

\* The start notifier of createStore with fetchList as starter, run by a
\* subscription made while the store has n subscribers.
Start(s, issued, n) ==
  IF n = 0 THEN FetchList(s, issued) ELSE [store |-> s, issued |-> issued]

NewRequests(before, after) == (before + 1)..after

\* api.get("projects") is given no abort signal: it is rejected with an
\* error other than an abort.
ListErrors == {e \in Errors : e.code # RequestAbortError}

NoResponse == [request |-> 0, ok |-> FALSE, payload |-> Undefined]

\* A component subscribes to `projects`.
projectsSubscribe ==
  LET started == Start(projectsStore, listIssued, projectsSubscribers)
  IN /\ projectsSubscribers < MaxSubscribers
     /\ started.issued <= MaxListRequests
     /\ projectsSubscribers' = projectsSubscribers + 1
     /\ projectsStore' = started.store
     /\ listIssued' = started.issued
     /\ listRequests' = listRequests \cup NewRequests(listIssued, started.issued)
     /\ everSubscribed' = TRUE
     /\ UNCHANGED listResponse
     /\ ProjectsFrame

\* A component unsubscribes from `projects`.
projectsUnsubscribe ==
  /\ projectsSubscribers > 0
  /\ projectsSubscribers' = projectsSubscribers - 1
  /\ UNCHANGED <<projectsStore, listRequests, listIssued, everSubscribed,
                 listResponse>>
  /\ ProjectsFrame

\* get(projects): a subscription that is ended at once.
projectsGet ==
  LET started == Start(projectsStore, listIssued, projectsSubscribers)
  IN /\ started.issued <= MaxListRequests
     /\ projectsStore' = started.store
     /\ listIssued' = started.issued
     /\ listRequests' = listRequests \cup NewRequests(listIssued, started.issued)
     /\ everSubscribed' = TRUE
     /\ UNCHANGED <<projectsSubscribers, listResponse>>
     /\ ProjectsFrame

\* api.get("projects") resolved: projectsStore.success.
ListResolved ==
  \E r \in listRequests, d \in Payloads :
    /\ listRequests' = listRequests \ {r}
    /\ projectsStore' = DataSuccess(d)
    /\ listResponse' = [request |-> r, ok |-> TRUE, payload |-> d]
    /\ UNCHANGED <<projectsSubscribers, listIssued, everSubscribed>>
    /\ ProjectsFrame

\* api.get("projects") rejected: projectsStore.error.
ListRejected ==
  \E r \in listRequests, e \in ListErrors :
    /\ listRequests' = listRequests \ {r}
    /\ projectsStore' = StoreError(projectsStore, e)
    /\ listResponse' = [request |-> r, ok |-> FALSE, payload |-> e]
    /\ UNCHANGED <<projectsSubscribers, listIssued, everSubscribed>>
    /\ ProjectsFrame

ProjectsInit ==
  /\ projectsStore = DataNotAsked
  /\ projectsSubscribers = 0
  /\ listRequests = {}
  /\ listIssued = 0
  /\ everSubscribed = FALSE
  /\ listResponse = NoResponse

ProjectsNext ==
  \/ projectsSubscribe
  \/ projectsUnsubscribe
  \/ projectsGet
  \/ ListResolved
  \/ ListRejected

(***************************************************************************)
(* The project screen (ui/src/screen/project.ts): fetch, refreshPeers,     *)
(* selectPeer, trackPeer, untrackPeer and removePeer.  The screen is       *)
(* opened by one call of fetch and is mounted from then on.  A user is a   *)
(* peer id; a list of peers is the set of its peer ids, and its first      *)
(* element is the least of them.  The proxy tracks every peer when the     *)
(* screen is opened, and a peer has at most one peerTrack or peerUntrack   *)
(* request in flight.                                                      *)
(***************************************************************************)
RefreshIds == 1..MaxRefreshes
Users == 1..MaxUsers

\* The responses of listPeers: the peers the proxy tracks, and the users
\* project.userList keeps of them, those whose status is replicated.  A
\* tracked peer that was reported as replicated stays so.
PeerResponses ==
  {r \in [peers : SUBSET Users, peerSelection : SUBSET Users] :
     /\ r.peers = tracked
     /\ r.peerSelection \subseteq r.peers
     /\ (replicated \cap tracked) \subseteq r.peerSelection}

First(users) == CHOOSE u \in users : \A v \in users : u <= v

NoPeerScreen ==
  [peers |-> {}, peerSelection |-> {}, project |-> "none",
   requestInProgress |-> None, selectedPeer |-> None]
IdleRefresh == [pc |-> "idle", current |-> NoPeerScreen]

\* refreshPeers up to the request: the store it writes.
RefreshStart(current, c) == [current EXCEPT !.requestInProgress = c]

\* The then() of refreshPeers: the screen data it writes, made from the
\* data the call read when it started.
Refreshed(current, response) ==
  [current EXCEPT !.peers = response.peers,
                  !.peerSelection = response.peerSelection,
                  !.requestInProgress = None]

\* fetch(projectUrn) up to the request of the project.
projectFetch ==
  /\ peerFetch = "idle"
  /\ peerScreen' = DataLoading
  /\ peerFetch' = "project.get"
  /\ UNCHANGED <<peerCalls, peerAborted, selectedDuring>>
  /\ UNCHANGED <<tracked, tracking, replicated>>
  /\ PeerFrame

\* fetch: the project was fetched, listPeers is sent.
ProjectFetched ==
  /\ peerFetch = "project.get"
  /\ peerFetch' = "listPeers"
  /\ UNCHANGED <<peerScreen, peerCalls, peerAborted, selectedDuring>>
  /\ UNCHANGED <<tracked, tracking, replicated>>
  /\ PeerFrame

\* fetch: listPeers resolved.
PeersFetched ==
  \E response \in PeerResponses :
    /\ peerFetch = "listPeers"
    /\ peerFetch' = "done"
    /\ peerScreen' =
         IF response.peerSelection = {}
           THEN StoreError(peerScreen, FromUnknown(MissingPeers))
           ELSE DataSuccess(
                  [peers |-> response.peers,
                   peerSelection |-> response.peerSelection,
                   project |-> "urn",
                   requestInProgress |-> None,
                   selectedPeer |-> First(response.peerSelection)])
    /\ UNCHANGED <<peerCalls, peerAborted, selectedDuring>>
    /\ replicated' = replicated \cup response.peerSelection
    /\ UNCHANGED <<tracked, tracking>>
    /\ PeerFrame

\* fetch: a request of it was rejected.
ProjectFetchRejected ==
  \E err \in SourceErrors :
    /\ peerFetch \in {"project.get", "listPeers"}
    /\ peerFetch' = "failed"
    /\ peerScreen' = StoreError(peerScreen, FromUnknown(err))
    /\ UNCHANGED <<peerCalls, peerAborted, selectedDuring>>
    /\ UNCHANGED <<tracked, tracking, replicated>>
    /\ PeerFrame

\* Refresh calls are numbered in the order they are made.
NextRefresh(c) ==
  /\ peerCalls[c].pc = "idle"
  /\ \A d \in RefreshIds : d < c => peerCalls[d].pc # "idle"

\* refreshPeers() up to the request of the peers, as call c; it does
\* nothing unless the screen is in Success.
RefreshPeersRun(c) ==
  LET current == peerScreen.data
  IN /\ peerAborted' = peerAborted \cup
          (IF current.requestInProgress # None
             THEN {current.requestInProgress} ELSE {})
     /\ peerScreen' = DataSuccess(RefreshStart(current, c))
     /\ peerCalls' = [peerCalls EXCEPT ![c] =
          [pc |-> "listPeers", current |-> current]]

\* refreshPeers() called on its own.
refreshPeers ==
  \E c \in RefreshIds :
    /\ NextRefresh(c)
    /\ Is(peerScreen, Success)
    /\ RefreshPeersRun(c)
    /\ UNCHANGED <<peerFetch, selectedDuring>>
    /\ UNCHANGED <<tracked, tracking, replicated>>
    /\ PeerFrame

\* refreshPeers: listPeers resolved, the then() runs.
PeersRefreshed ==
  \E c \in RefreshIds, response \in PeerResponses :
    LET call == peerCalls[c]
    IN /\ call.pc = "listPeers"
       /\ c \notin peerAborted
       /\ peerScreen' =
            IF response.peerSelection = {}
              THEN StoreError(peerScreen, FromUnknown(MissingPeers))
              ELSE DataSuccess(Refreshed(call.current, response))
       /\ peerCalls' = [peerCalls EXCEPT ![c] =
            [pc |-> IF response.peerSelection = {} THEN "failed" ELSE "done",
             current |-> NoPeerScreen]]
       /\ UNCHANGED <<peerFetch, peerAborted, selectedDuring>>
       /\ replicated' = replicated \cup response.peerSelection
       /\ UNCHANGED <<tracked, tracking>>
       /\ PeerFrame

\* refreshPeers: listPeers was rejected, with an AbortError exactly when
\* its signal was aborted.
PeersRefreshRejected ==
  \E c \in RefreshIds :
    \E err \in (IF c \in peerAborted THEN {AbortError} ELSE SourceErrors) :
      /\ peerCalls[c].pc = "listPeers"
      /\ peerScreen' = StoreError(peerScreen, FromUnknown(err))
      /\ peerCalls' = [peerCalls EXCEPT ![c] =
           [pc |-> "failed", current |-> NoPeerScreen]]
      /\ UNCHANGED <<peerFetch, peerAborted, selectedDuring>>
      /\ UNCHANGED <<tracked, tracking, replicated>>
      /\ PeerFrame

\* selectPeer(peer), for a peer of the selection the screen shows.
selectPeer ==
  \E peer \in Users :
    /\ Is(peerScreen, Success)
    /\ peer \in peerScreen.data.peerSelection
    /\ peer # peerScreen.data.selectedPeer
    /\ peerScreen' = DataSuccess([peerScreen.data EXCEPT !.selectedPeer = peer])
    /\ selectedDuring' =
         selectedDuring \cup {c \in RefreshIds : peerCalls[c].pc = "listPeers"}
    /\ UNCHANGED <<peerCalls, peerFetch, peerAborted>>
    /\ UNCHANGED <<tracked, tracking, replicated>>
    /\ PeerFrame

\* trackPeer(projectUrn, peerId) up to the peerTrack request.
trackPeer ==
  \E peer \in Users :
    /\ tracking[peer] = "none"
    /\ tracking' = [tracking EXCEPT ![peer] = "peerTrack"]
    /\ UNCHANGED <<peerScreen, peerCalls, peerFetch, peerAborted,
                   selectedDuring, tracked,
                   replicated>>
    /\ PeerFrame

\* untrackPeer(projectUrn, peerId) up to the peerUntrack request.
untrackPeer ==
  \E peer \in Users :
    /\ tracking[peer] = "none"
    /\ tracking' = [tracking EXCEPT ![peer] = "peerUntrack"]
    /\ UNCHANGED <<peerScreen, peerCalls, peerFetch, peerAborted,
                   selectedDuring, tracked,
                   replicated>>
    /\ PeerFrame

\* removePeer(projectId, peerId): untrackPeer is called and, when the peer
\* is the selected one, the first of the selection is selected.
removePeer ==
  \E peer \in Users :
    /\ Is(peerScreen, Success)
    /\ tracking[peer] = "none"
    /\ tracking' = [tracking EXCEPT ![peer] = "peerUntrack"]
    /\ peerScreen' =
         IF peerScreen.data.selectedPeer = peer
           THEN DataSuccess(
                  [peerScreen.data EXCEPT
                     !.selectedPeer = First(peerScreen.data.peerSelection)])
           ELSE peerScreen
    /\ UNCHANGED <<peerCalls, peerFetch, peerAborted, selectedDuring, tracked,
                   replicated>>
    /\ PeerFrame

\* What the proxy tracks after a request was served.
Served(request, peer) ==
  IF request = "peerTrack" THEN tracked \cup {peer} ELSE tracked \ {peer}

\* peerTrack or peerUntrack resolved: the then() calls refreshPeers().
TrackingResolved ==
  \E peer \in Users :
    /\ tracking[peer] # "none"
    /\ tracked' = Served(tracking[peer], peer)
    /\ tracking' = [tracking EXCEPT ![peer] = "none"]
    /\ IF Is(peerScreen, Success)
         THEN \E c \in RefreshIds : NextRefresh(c) /\ RefreshPeersRun(c)
         ELSE UNCHANGED <<peerScreen, peerCalls, peerAborted>>
    /\ UNCHANGED <<peerFetch, selectedDuring, replicated>>
    /\ PeerFrame

\* peerTrack or peerUntrack was rejected.
TrackingRejected ==
  \E peer \in Users, err \in SourceErrors :
    /\ tracking[peer] # "none"
    /\ tracking' = [tracking EXCEPT ![peer] = "none"]
    /\ peerScreen' = StoreError(peerScreen, FromUnknown(err))
    /\ UNCHANGED <<peerCalls, peerFetch, peerAborted, selectedDuring, tracked,
                   replicated>>
    /\ PeerFrame

PeerInit ==
  /\ peerScreen = DataNotAsked
  /\ peerCalls = [c \in RefreshIds |-> IdleRefresh]
  /\ peerFetch = "idle"
  /\ peerAborted = {}
  /\ selectedDuring = {}
  /\ tracked = Users
  /\ replicated = {}
  /\ tracking = [peer \in Users |-> "none"]

PeerNext ==
  \/ projectFetch
  \/ ProjectFetched
  \/ PeersFetched
  \/ ProjectFetchRejected
  \/ refreshPeers
  \/ PeersRefreshed
  \/ PeersRefreshRejected
  \/ selectPeer
  \/ trackPeer
  \/ untrackPeer
  \/ removePeer
  \/ TrackingResolved
  \/ TrackingRejected

(***************************************************************************)
(* Specifications.                                                         *)
(***************************************************************************)
Init ==
  /\ StoreInit /\ PoolInit /\ WalletInit /\ PollInit /\ OrgInit /\ FetchInit
  /\ SourceInit
  /\ FlagInit
  /\ HotkeyInit
  /\ SessionInit
  /\ WindowInit
  /\ AnchorInit
  /\ ProjectsInit
  /\ PeerInit

SpecStore == Init /\ [][StoreNext]_vars

SpecPool == Init /\ [][PoolNext]_vars

SpecOrg == Init /\ [][OrgNext]_vars

SpecFetch == Init /\ [][FetchNext]_vars

SpecLayer == Init /\ [][LayerNext]_vars

SpecSource == Init /\ [][SourceNext]_vars

SpecPoll == Init /\ [][PollLoopNext]_vars

SpecFlags == Init /\ [][FlagNext]_vars

SpecHotkeys == Init /\ [][HotkeyNext]_vars

SpecSession == Init /\ [][SessionNext]_vars

SpecWindow == Init /\ [][WindowNext]_vars

SpecAnchors == Init /\ [][AnchorNext]_vars

SpecProjects == Init /\ [][ProjectsNext]_vars

SpecPeers == Init /\ [][PeerNext]_vars

(***************************************************************************)
(* Claims about the remote store.                                          *)
(***************************************************************************)

\* C4: error(err) with an err whose code is RequestAbortError leaves the
\* store's value exactly as it was, whatever its status; with any other
\* error the store holds the Error variant carrying err.
C4_ErrorSuppressesAbort ==
  lastOp.op = "error" =>
    IF lastOp.arg.code = RequestAbortError
      THEN store = lastOp.before
      ELSE store = DataError(lastOp.arg)

\* C4 witness: an abort error was reported to a store in the Success state
\* and the store still holds its data.
C4_Witness ==
  /\ lastOp.op = "error"
  /\ lastOp.arg.code = RequestAbortError
  /\ store.status = Success
  /\ store.data = lastSuccess

\* C6 (as claimed): every change of the store's status is one of
\* NotAsked -> Loading, Loading -> Success, Loading -> Error.
C6_OnlyForwardTransitions ==
  store.status # lastOp.before.status =>
    <<lastOp.before.status, store.status>> \in
      {<<NotAsked, Loading>>, <<Loading, Success>>, <<Loading, Error>>}

\* C7 (as claimed): unwrap() returns the data of the latest success() when
\* the store is in the Success state and undefined otherwise, and leaves the
\* store's value unchanged, with or without subscribers.
C7_UnwrapReadsSuccessData ==
  lastOp.op = "unwrap" =>
    /\ store = lastOp.before
    /\ result = IF lastOp.before.status = Success THEN lastSuccess ELSE Undefined

(***************************************************************************)
(* Claims about the funding pool.                                          *)
(***************************************************************************)

\* C9 (as claimed): the promise returned by topUp(value) and withdraw(value)
\* resolves only after the submitted transaction has been included in the
\* chain, that is, not before tx.wait() of that transaction has completed.
C9_ResolvesAfterInclusion ==
  \A c \in PoolCallIds :
    poolCalls[c].pc = "resolved" => poolTx[c] = "mined"

(***************************************************************************)
(* Claims about org creation.                                              *)
(***************************************************************************)

\* C10 (as claimed): pendingOrgs is the number of createOrg calls whose
\* transaction is submitted and that have not ended or passed their
\* decrement, so it is back to its earlier value when a call has ended, by
\* success or by an error thrown after the submission.
C10_PendingOrgsCountsPending ==
  pendingOrgs =
    Cardinality({c \in OrgCallIds : orgCalls[c].pc \in {"waitingTx", "waitingSidebar"}})

(***************************************************************************)
(* Claims about the fetch operations and the background tasks.             *)
(***************************************************************************)

C11_OneErrorPerFailureRun ==
  [][LET pollFailed ==
           pollPc = "fetching" /\ pollPc' = "sleeping" /\ lastPollFailed'
     IN errorsShown' =
          IF pollFailed /\ ~lastPollFailed THEN errorsShown + 1
          ELSE errorsShown]_vars

\* C11 witness: a second error has been shown, for a failure that followed
\* a success that followed the first shown failure.
C11_Witness ==
  /\ errorsShown = 2
  /\ lastPollFailed
  /\ ~showError
  /\ pollPc = "sleeping"

(***************************************************************************)
(* Claims about the project source screen.                                 *)
(***************************************************************************)

\* C1: when selectRevision is called with a revision other than the selected
\* one while selectedRevision.request holds the controller of an earlier
\* selectRevision, the call aborts that controller before it issues its
\* tree fetch.
C1_AbortBeforeTreeFetch ==
  (lastRun.handler = "selectRevision" /\ lastRun.before # None) =>
    /\ lastRun.before \in aborted
    /\ \A j \in DOMAIN lastRun.effects :
         lastRun.effects[j].op = "fetchTree" =>
           \E i \in 1..(j - 1) :
             lastRun.effects[i] = Effect("abort", lastRun.before)

\* C1 witness: selectRevision ran while the tree fetch of the earlier
\* selectRevision, whose controller was recorded, was still in flight.
C1_Witness ==
  /\ lastRun.handler = "selectRevision"
  /\ lastRun.before # None
  /\ \E d \in SourceCallIds :
       /\ RevisionRequest(d) = lastRun.before
       /\ sourceCalls[d].kind = "selectRevision"
       /\ sourceCalls[d].pc = "parallel"
       /\ sourceCalls[d].treecode = "tree"
       /\ sourceCalls[lastRun.call].treecode = "tree"

C3_LaterRefreshWins ==
  \A c1, c2 \in SourceCallIds :
    (/\ sourceCalls[c1].kind = "refreshPatches"
     /\ sourceCalls[c2].kind = "refreshPatches"
     /\ sourceCalls[c1].pc = "done"
     /\ sourceCalls[c2].pc = "done"
     /\ c1 \in sourceCalls[c2].during
     /\ lastRun.handler = "PatchesResolved"
     /\ lastRun.call \in {c1, c2})
    => /\ screen.status = Success
       /\ screen.data.patches = sourceCalls[c2].patches
       /\ counters[screen.data.menuItems] = Unmerged(sourceCalls[c2].patches)

(***************************************************************************)
(* Claims about the feature flags.                                         *)
(***************************************************************************)

\* C12: isExperimental() is true only when isDev() is true; when isDev() is
\* false, whatever RADICLE_UPSTREAM_EXPERIMENTAL is, the revision list of the
\* source screen is the list of the branches of the response and holds no
\* tag.
C12_ExperimentalOnlyInDev ==
  /\ isExperimental(electron) => isDev(electron)
  /\ (processEnv.NODE_ENV # "development" /\ revisionsResponse # NoRevisions) =>
       /\ revisionList = revisionsResponse.branches
       /\ \A i \in DOMAIN revisionList : revisionList[i].type # "tag"

\* C12 witness: a production build started with the experimental setting
\* on has fetched a repository that has tags, and lists its branches only.
C12_Witness ==
  /\ processEnv.NODE_ENV = "production"
  /\ processEnv.RADICLE_UPSTREAM_EXPERIMENTAL = "true"
  /\ revisionsResponse.tags # <<>>
  /\ revisionList = revisionsResponse.branches

(***************************************************************************)
(* Claims about the global hotkeys.                                        *)
(***************************************************************************)

\* C13 (as claimed): the navigation history never holds two modal routes
\* next to each other, so the entry under a visible modal is not a modal.
C13_NoModalStacking ==
  \A i \in 1..(Len(routerHistory) - 1) :
    ~(routerHistory[i] \in ModalRoutes /\ routerHistory[i + 1] \in ModalRoutes)

(***************************************************************************)
(* Claims about the session.                                               *)
(***************************************************************************)

\* C14 (as claimed): updateAppearance(a) sends one update whose body is a
\* whole settings value, with a as its appearance and every other field as
\* in the settings the session store holds, and sends no `session` request
\* itself; a failed update sends none either and leaves the session store
\* as it was.
C14_UpdateAppearanceFrame ==
  /\ lastSession.step = "updateAppearance" =>
       /\ lastSession.body \in settingsUpdates
       /\ lastSession.body \in SettingsValues
       /\ lastSession.body.appearance = lastSession.appearance
       /\ lastSession.current # Null =>
            lastSession.body.registry = lastSession.current.registry
       /\ sessionGets = lastSession.gets
  /\ lastSession.step = "UpdateRejected" =>
       /\ sessionStore = lastSession.before
       /\ sessionGets = lastSession.gets

(***************************************************************************)
(* Claims about the main window.                                           *)
(***************************************************************************)

\* The URL starts with the prefix, the case of its letters set aside.
CapitalOf(ch) ==
  IF ch = "h" THEN "H" ELSE IF ch = "t" THEN "T" ELSE IF ch = "p" THEN "P"
  ELSE IF ch = "s" THEN "S" ELSE ch

StartsWithAnyCase(url, prefix) ==
  /\ Len(url) >= Len(prefix)
  /\ \A i \in 1..Len(prefix) : url[i] \in {prefix[i], CapitalOf(prefix[i])}

HttpUrl(url) ==
  \/ StartsWithAnyCase(url, <<"h", "t", "t", "p", ":", "/", "/">>)
  \/ StartsWithAnyCase(url, <<"h", "t", "t", "p", "s", ":", "/", "/">>)

\* C15: the main window keeps showing the app and opens no window, and a
\* URL of a will-navigate or new-window event or of an OPEN_URL call has
\* been opened in the external browser exactly when it starts with http://
\* or https://, in any case of the letters.
C15_NavigationStaysInApp ==
  /\ windowUrl = AppUrl
  /\ childWindows = 0
  /\ \A url \in externalOpened : HttpUrl(url)
  /\ lastNav.event # "none" =>
       (lastNav.url \in externalOpened <=> HttpUrl(lastNav.url))

\* C15 witness: a URL in capital letters was opened in the browser, and an
\* OPEN_URL call with a javascript: URL has opened nothing.
C15_Witness ==
  /\ lastNav = [event |-> "OPEN_URL",
                url |-> <<"j", "a", "v", "a", "s", "c", "r", "i", "p", "t", ":", "x">>]
  /\ lastNav.url \notin externalOpened
  /\ <<"H", "T", "T", "P", ":", "/", "/", "x">> \in externalOpened

(***************************************************************************)
(* Claims about selectRevision and the code store of the source screen.    *)
(***************************************************************************)
SelectRevisionCalls ==
  {c \in SourceCallIds : sourceCalls[c].kind = "selectRevision"}

LastCall(calls) == CHOOSE c \in calls : \A d \in calls : d <= c

\* Only fetch and selectRevision were called, and every call has ended
\* with none of its requests rejected.
RevisionsSettled ==
  /\ SelectRevisionCalls # {}
  /\ \A c \in SourceCallIds :
       /\ sourceCalls[c].kind \in {"none", "fetch", "selectRevision"}
       /\ sourceCalls[c].pc \in {"idle", "done"}

\* C18: once every selectRevision call made on the loaded screen has
\* ended with none of its requests rejected, the screen shows the revision
\* of the last call: selectedRevision is that revision with no request,
\* and history and tree are those fetched for it.
C18_LastRevisionShown ==
  RevisionsSettled =>
    LET last == sourceCalls[LastCall(SelectRevisionCalls)].revision
    IN /\ Is(screen, Success)
       /\ screen.data.selectedRevision = [request |-> None, selected |-> last]
       /\ screen.data.history = last
       /\ treeStore[screen.data.tree] = last

\* C19: no code store of the screen ever holds a view of kind Aborted.
C19_AbortedNeverShown ==
  \A c \in SourceCallIds : codeStore[c].kind # Aborted

(***************************************************************************)
(* Claims about resolveProjectAnchors.                                     *)
(***************************************************************************)
Ids(array) == {array[i].id : i \in DOMAIN array}

\* C16: when resolveProjectAnchors returns, every anchor of the org is in
\* exactly one place of the two arrays, in anchoredProjects exactly when its
\* project was fetched, and in anchoredProjects no confirmed anchor comes
\* before a pending one.
C16_AnchorsPartitioned ==
  anchorPc = "returned" =>
    /\ Ids(anchoredProjects) \cup Ids(unresolvedAnchors) = DOMAIN anchors
    /\ Len(anchoredProjects) + Len(unresolvedAnchors) = Len(anchors)
    /\ \A i \in DOMAIN anchoredProjects :
         anchoredProjects[i] = anchors[anchoredProjects[i].id]
    /\ \A i \in DOMAIN unresolvedAnchors :
         unresolvedAnchors[i] = anchors[unresolvedAnchors[i].id]
    /\ Ids(anchoredProjects) = Ids(pushed)
    /\ \A i, j \in DOMAIN anchoredProjects :
         (i < j) =>
           ~(anchoredProjects[i].type = "confirmed"
             /\ anchoredProjects[j].type = "pending")

\* C16 witness: the project of a confirmed anchor was fetched before that
\* of a pending one, a third project could not be fetched, and the call
\* has returned.
C16_Witness ==
  /\ anchorPc = "returned"
  /\ Len(pushed) = 2
  /\ pushed[1].type = "confirmed"
  /\ pushed[2].type = "pending"
  /\ Len(unresolvedAnchors) = 1

(***************************************************************************)
(* Claims about the projects store.                                        *)
(***************************************************************************)
\* C17: no `projects` request is sent and the store stays NotAsked while
\* the store has never had a subscriber; the first subscription sends
\* exactly one request and leaves the store Loading; and the response to
\* that request leaves the store Success with the data received or Error
\* with the error received.
C17_ListFetchedOnFirstSubscription ==
  [][/\ ~everSubscribed' =>
          /\ listIssued' = 0
          /\ projectsStore' = DataNotAsked
     /\ (~everSubscribed /\ everSubscribed') =>
          /\ listIssued' = 1
          /\ listRequests' = {1}
          /\ projectsStore' = DataLoading
     /\ (1 \in listRequests /\ 1 \notin listRequests') =>
          /\ listResponse'.request = 1
          /\ projectsStore' = IF listResponse'.ok
                                THEN DataSuccess(listResponse'.payload)
                                ELSE DataError(listResponse'.payload)]_vars

\* C17 witness: the first request was answered with an error while the
\* store, subscribed to once, had no other request in flight.
C17_Witness ==
  /\ listResponse.request = 1
  /\ ~listResponse.ok
  /\ listIssued = 1
  /\ projectsSubscribers = 1
  /\ projectsStore.status = Error

(***************************************************************************)
(* Claims about the project screen.                                        *)
(***************************************************************************)
\* C20: when a refreshPeers call completes that was in flight at a
\* selectPeer, the screen is left as it was but for peers, peerSelection
\* and requestInProgress: selectedPeer is still the peer selected.
C20_SelectPeerSurvivesRefresh ==
  [][\A c \in RefreshIds :
       (/\ c \in selectedDuring
        /\ Is(peerScreen, Success)
        /\ peerCalls[c].pc = "listPeers"
        /\ peerCalls'[c].pc = "done")
       => /\ Is(peerScreen', Success)
          /\ peerScreen'.data.selectedPeer = peerScreen.data.selectedPeer
          /\ peerScreen'.data.project = peerScreen.data.project]_vars

\* C21: whenever the store of the project screen is in Success,
\* peerSelection is not empty and selectedPeer is one of its members.
C21_SelectedPeerInSelection ==
  Is(peerScreen, Success) =>
    /\ peerScreen.data.peerSelection # {}
    /\ peerScreen.data.selectedPeer \in peerScreen.data.peerSelection

====
